---- MODULE Spec2Model ----
(***************************************************************************)
(* Capsule-based ownership transfer of Arrow C-ABI structs between a       *)
(* native array library (sparrow) and the Python runtime, as implemented   *)
(* in src/src/pycapsule.cpp (namespace sparrow::rockfinch).                *)
(*                                                                         *)
(* A C struct (ArrowSchema, ArrowArray) is a record whose `release` field  *)
(* is either NULL or the identity of the buffer set the callback frees.    *)
(* Heap cells, capsules and native array values are kept in functions      *)
(* indexed by their address / handle / slot.                               *)
(***************************************************************************)
EXTENDS Integers, Sequences, FiniteSets, TLC

\* ------------------------------------------------------------------ bounds
NumArrays == 1      \* native arrays that exist before any call
MaxImports == 2     \* successful calls of import_array_from_capsules
MaxLen == 2         \* longest native array
NumStreams == 1     \* SparrowStream objects that exist before any call
MaxStreamExports == 1   \* non-empty calls of export_arrays_to_stream_capsule
MaxProxies == 1     \* proxies returned by import_stream_proxy_from_capsule
MaxItems == 3       \* arrays a caller holds to push or to export as a stream
MaxVector == 2      \* longest vector passed to export_arrays_to_stream_capsule
MaxTaken == 2       \* successful stream imports from one capsule
MaxCopies == 2      \* copies made of an array (two buffer sets) or of schemas
MaxObjects == 2     \* SparrowArrayObject allocations

\* ------------------------------------------------------------- constants
NULL == 0           \* nullptr: a null pointer, a null handle, a null release

arrow_schema_str == "arrow_schema"
arrow_array_str == "arrow_array"
arrow_array_stream_str == "arrow_array_stream"

\* ------------------------------------------------------------ universes
\* Array values: the initial ones, then one per successful import.
InitialArrays == 1..NumArrays
ArrayIds == 1..(NumArrays + MaxImports)

\* Capsules the host holds that this library did not make: one wrapping an
\* ArrowArrayStream, one with a name this library does not know.  The cell
\* a host capsule points to has the capsule's number as its address.
HostCapsules == 1..2
HostCapsuleName(c) == IF c = 1 THEN arrow_array_stream_str ELSE "wrong_name"
HostCapsuleKind(c) == IF c = 1 THEN "stream" ELSE "schema"

\* Buffer sets: one for the schema and one for the data of every initial
\* array, and one behind each host capsule.
SchBuf(i) == 2 * i - 1
ArrBuf(i) == 2 * i
HostBuf(c) == 2 * NumArrays + c
OwnBufs == 1..(2 * NumArrays)

\* The private state of a stream (arrow_array_stream_private_data): one per
\* SparrowStream, one per stream that export_arrays_to_stream_capsule fills.
StreamBuf(k) == 2 * NumArrays + 2 + k
StreamBufs == {StreamBuf(k) : k \in 1..(NumStreams + MaxStreamExports)}

\* The buffer sets of copies: one for a copy of a schema, two for a copy of
\* an array.
CopyBuf(k) == 2 * NumArrays + 2 + NumStreams + MaxStreamExports + k
CopyBufs == {CopyBuf(k) : k \in 1..(2 * MaxCopies)}
Bufs == 1..(2 * NumArrays + 2 + NumStreams + MaxStreamExports + 2 * MaxCopies)

\* Stream proxies (arrow_array_stream_proxy): the one inside each
\* SparrowStream, then one per import_stream_proxy_from_capsule.
SparrowStreams == 1..NumStreams
ProxyIds == 1..(NumStreams + MaxProxies)

\* Arrays made by make_stream_test_array, known by their start value.
Items == 1..MaxItems

\* Heap addresses and capsule handles: never reused; every array value can
\* be exported once, and an export takes two cells and up to two capsules;
\* a copy takes one cell and one capsule for each of its buffer sets.
Ptrs == 1..(2 * (NumArrays + MaxImports) + 2 + 2 * MaxCopies)
CapIds == 1..(2 * (NumArrays + MaxImports) + 2 + 2 * MaxCopies)

\* Elements of a nullable int32 array: <<value, has_value>>.
Elements == {<<0, FALSE>>, <<40, TRUE>>}
Contents == UNION {[1..n -> Elements] : n \in 0..MaxLen}

VARIABLES
    arrays,       \* slot -> native array value (sparrow::array)
    heap,         \* address -> heap cell holding a C struct
    capsules,     \* handle -> PyCapsule
    buffers,      \* buffer set -> the elements stored in it
    released,     \* buffer set -> number of times its release callback ran
    capReleased,  \* buffer set -> how many of those ran in a capsule destructor
    deleted,      \* address -> number of times `delete` was applied to it
    snap,         \* capsule -> what its source array held at the export, and
                  \*            the number of imports that have read the capsule
    moves,        \* buffer set -> number of export calls that extracted it,
                  \*               number of imports that took it out of a capsule
    ret,          \* locals and result of the API call that led to this state
    proxies,      \* proxy -> stream proxy, with m_consumed of the SparrowStream
                  \*          around it, and what was pushed to and popped from it
    stream_data,  \* buffer set -> private state of a stream: its pending arrays
    held,         \* item -> who has the array's data
    objects       \* object -> SparrowArrayObject: its state and its `arr` field

svars == <<proxies, stream_data, held, objects>>

vars == <<arrays, heap, capsules, buffers, released, capReleased, deleted, snap, moves, ret,
          proxies, stream_data, held, objects>>

\* ------------------------------------------------------------ C structs
Struct(kind, release, private_data, length, null_count) ==
    [kind |-> kind, release |-> release, private_data |-> private_data,
     length |-> length, null_count |-> null_count]

\* ArrowSchema{} and ArrowArray{}: value-initialised structs.
EmptySchema == Struct("schema", NULL, NULL, 0, 0)
EmptyArray == Struct("array", NULL, NULL, 0, 0)

\* sparrow::array{}: an array value that holds nothing.
EmptyValue == [st |-> "live", schema |-> EmptySchema, array |-> EmptyArray]
NoValue == [st |-> "none", schema |-> EmptySchema, array |-> EmptyArray]
DestroyedValue == [st |-> "destroyed", schema |-> EmptySchema, array |-> EmptyArray]

RECURSIVE CountNulls(_)
CountNulls(s) ==
    IF s = <<>> THEN 0
    ELSE (IF s[1][2] THEN 0 ELSE 1) + CountNulls(Tail(s))

\* A native array built over `elems` (make_test_array): it owns both structs.
NativeArray(i, elems) ==
    [st |-> "live",
     schema |-> Struct("schema", SchBuf(i), SchBuf(i), 0, 0),
     array |-> Struct("array", ArrBuf(i), ArrBuf(i), Len(elems), CountNulls(elems))]

\* Accessors of sparrow::array.
Size(a) == a.array.length
NullCount(a) == a.array.null_count
Values(a) == IF a.array.private_data = NULL THEN <<>> ELSE buffers[a.array.private_data]
Owns(a) == a.st = "live" /\ a.schema.release # NULL /\ a.array.release # NULL

NoCell == [st |-> "unalloc", obj |-> EmptySchema]

\* SparrowArrayObject: `arr` is NULL, the slot of the array allocated for the
\* object, or has never been written.  Wild: a pointer to no array.
ObjIds == 1..MaxObjects
Uninitialized == -1
Wild == -2
NoObj == [st |-> "none", arr |-> NULL]
NoCapsule == [st |-> "none", name |-> "", pointer |-> NULL, destructor |-> "none"]
NoSnap == [returned |-> FALSE, pair |-> NULL, size |-> 0, null_count |-> 0,
           values |-> <<>>, taken |-> 0]

\* What `ret` records of a call: the array it worked on (the source of an
\* export, the slot of the array an import built), the locals schema_capsule
\* and array_capsule of an export, the pointers schema_ptr / array_ptr of an
\* export or schema / arr of an import, the release fields of the structs it
\* copied, whether a Python error is set, and what it returned (`first` and
\* `second` for the pair of an export, `result` for the array of an import).
\* The Python entry point a call came through, with the requested_schema
\* argument it was given ("none": the function was called from C++).
NoEntry == [name |-> "none", requested_schema |-> "none"]
Entry(name, requested_schema) == [name |-> name, requested_schema |-> requested_schema]

NoRet == [op |-> "none", arr |-> NULL, schema_capsule |-> NULL, array_capsule |-> NULL,
          schema |-> NULL, array |-> NULL, err |-> FALSE,
          schema_release |-> NULL, array_release |-> NULL,
          first |-> NULL, second |-> NULL, result |-> NoValue, entry |-> NoEntry]

\* ArrowArrayStream: `release` and `private_data` name the private state.
StreamStruct(b) == Struct("stream", b, b, 0, 0)

\* A stream proxy.  `wrapped` says that it is the m_stream_proxy of a
\* SparrowStream, whose flag is m_consumed.  History: the items pushed into
\* it and those its pop returned, whether a pop has returned the empty
\* option, the capsule export_to_capsule returned, the capsule it came from.
NoProxy == [st |-> "none", wrapped |-> FALSE, m_consumed |-> FALSE,
            stream |-> Struct("stream", NULL, NULL, 0, 0),
            pushed |-> <<>>, popped |-> <<>>, eos |-> FALSE,
            exported |-> NULL, source |-> NULL]

\* Variant: a stream is born consumed.
NewSparrowStream_consumed(s) == [NoProxy EXCEPT !.st = "live", !.wrapped = TRUE,
                                                !.m_consumed = TRUE,
                                                !.stream = StreamStruct(StreamBuf(s))]

\* SparrowStream(): a default-constructed proxy, with its own empty stream.
NewSparrowStream(s) == [NoProxy EXCEPT !.st = "live", !.wrapped = TRUE,
                                       !.stream = StreamStruct(StreamBuf(s))]

NoStreamData == [alloc |-> FALSE, arrays |-> <<>>]
EmptyStreamData == [alloc |-> TRUE, arrays |-> <<>>]

\* The part of the state a handler's helpers read and write.
World == [heap |-> heap, capsules |-> capsules, released |-> released,
          capReleased |-> capReleased, deleted |-> deleted]

Commit(W) ==
    /\ heap' = W.heap
    /\ capsules' = W.capsules
    /\ released' = W.released
    /\ capReleased' = W.capReleased
    /\ deleted' = W.deleted

\* The state after `content[i]` was made the content of native array i.
InitWith(content) ==
    /\ arrays = [v \in ArrayIds |->
                    IF v \in InitialArrays THEN NativeArray(v, content[v]) ELSE NoValue]
    /\ buffers = [b \in Bufs |->
                    IF \E i \in InitialArrays : b = ArrBuf(i)
                    THEN content[b \div 2] ELSE <<>>]
    /\ heap = [p \in Ptrs |->
                  IF p \in HostCapsules
                  THEN [st |-> "live",
                        obj |-> Struct(HostCapsuleKind(p), HostBuf(p), HostBuf(p), 0, 0)]
                  ELSE NoCell]
    /\ capsules = [c \in CapIds |->
                  IF c \in HostCapsules
                  THEN [st |-> "live", name |-> HostCapsuleName(c),
                        pointer |-> c, destructor |-> "host"]
                  ELSE NoCapsule]
    /\ released = [b \in Bufs |-> 0]
    /\ capReleased = [b \in Bufs |-> 0]
    /\ deleted = [p \in Ptrs |-> 0]
    /\ snap = [c \in CapIds |-> NoSnap]
    /\ moves = [b \in Bufs |-> [exported |-> 0, imported |-> 0]]
    /\ ret = NoRet
    /\ proxies = [p \in ProxyIds |->
                     IF p \in SparrowStreams THEN NewSparrowStream(p) ELSE NoProxy]
    /\ stream_data = [b \in Bufs |->
                         IF b = HostBuf(1) \/ \E s \in SparrowStreams : b = StreamBuf(s)
                         THEN EmptyStreamData ELSE NoStreamData]
    /\ held = [i \in Items |-> "caller"]
    /\ objects = [o \in ObjIds |-> NoObj]

\* ----------------------------------------------------- host runtime (CPython)
\* PyCapsule_GetPointer: the pointer, or NULL with an error set when the
\* object is not a capsule or its name differs from `name`.
PyCapsule_GetPointer(caps, capsule, name) ==
    IF capsule = NULL THEN NULL
    ELSE IF caps[capsule].st # "live" THEN NULL
    ELSE IF caps[capsule].name # name THEN NULL
    ELSE caps[capsule].pointer

\* The handle PyCapsule_New returns when it succeeds.
NextCapsule(caps) ==
    CHOOSE c \in CapIds : caps[c].st = "none" /\ \A d \in CapIds : d < c => caps[d].st # "none"

PyCapsule_New(W, c, pointer, name, destructor) ==
    [W EXCEPT !.capsules[c] =
        [st |-> "live", name |-> name, pointer |-> pointer, destructor |-> destructor]]

\* ------------------------------------------------------------- C++ heap
NextPtr(h) ==
    CHOOSE p \in Ptrs : h[p].st = "unalloc" /\ \A q \in Ptrs : q < p => h[q].st # "unalloc"

\* Variant: the heap struct is value-initialised and only takes the callback.
New_value_initialised(W, p, obj) ==
    [W EXCEPT !.heap[p] = [st |-> "live", obj |-> Struct(obj.kind, obj.release, NULL, 0, 0)]]

\* new T(obj): a heap copy of the struct.
New(W, p, obj) == [W EXCEPT !.heap[p] = [st |-> "live", obj |-> obj]]

\* delete p
Delete(W, p) == [W EXCEPT !.heap[p].st = "freed", !.deleted[p] = @ + 1]

\* p->release(p): the callback frees the buffer set and nulls the field.
Release(W, p, inCapsuleDestructor) ==
    LET b == W.heap[p].obj.release IN
    [W EXCEPT !.heap[p].obj.release = NULL,
              !.released[b] = @ + 1,
              !.capReleased[b] = IF inCapsuleDestructor THEN @ + 1 ELSE @]

\* ------------------------------------------------------ capsule destructors
\* Variant: the schema destructor releases the struct and leaves it allocated.
release_arrow_schema_pycapsule_no_delete(W, capsule) ==
    IF capsule = NULL THEN W
    ELSE LET schema == PyCapsule_GetPointer(W.capsules, capsule, arrow_schema_str) IN
         IF schema = NULL THEN W
         ELSE IF W.heap[schema].obj.release # NULL THEN Release(W, schema, TRUE) ELSE W

release_arrow_schema_pycapsule(W, capsule) ==
    IF capsule = NULL THEN W
    ELSE LET schema == PyCapsule_GetPointer(W.capsules, capsule, arrow_schema_str) IN
         IF schema = NULL THEN W
         ELSE Delete(IF W.heap[schema].obj.release # NULL
                     THEN Release(W, schema, TRUE) ELSE W, schema)

\* Variant: the destructor releases the struct and forgets to delete it.
release_arrow_array_pycapsule_no_delete(W, capsule) ==
    IF capsule = NULL THEN W
    ELSE LET array == PyCapsule_GetPointer(W.capsules, capsule, arrow_array_str) IN
         IF array = NULL THEN W
         ELSE IF W.heap[array].obj.release # NULL THEN Release(W, array, TRUE) ELSE W

release_arrow_array_pycapsule(W, capsule) ==
    IF capsule = NULL THEN W
    ELSE LET array == PyCapsule_GetPointer(W.capsules, capsule, arrow_array_str) IN
         IF array = NULL THEN W
         ELSE Delete(IF W.heap[array].obj.release # NULL
                     THEN Release(W, array, TRUE) ELSE W, array)

release_arrow_array_stream_pycapsule(W, capsule) ==
    IF capsule = NULL THEN W
    ELSE LET stream == PyCapsule_GetPointer(W.capsules, capsule, arrow_array_stream_str) IN
         IF stream = NULL THEN W
         ELSE Delete(IF W.heap[stream].obj.release # NULL
                     THEN Release(W, stream, TRUE) ELSE W, stream)

\* The destructor PyCapsule_New registered for the capsule, called on it.
RunDestructor(W, capsule) ==
    LET d == W.capsules[capsule].destructor
    IN IF d = "release_arrow_schema_pycapsule"
       THEN release_arrow_schema_pycapsule(W, capsule)
       ELSE IF d = "release_arrow_array_pycapsule"
       THEN release_arrow_array_pycapsule(W, capsule)
       ELSE IF d = "release_arrow_array_stream_pycapsule"
       THEN release_arrow_array_stream_pycapsule(W, capsule)
       ELSE W

\* The destructor called once more on a capsule whose struct it has already
\* deleted.  PyCapsule_GetPointer still returns the pointer; reading
\* p->release is a read of freed memory, so the run may crash on the read
\* or on the call of what it read, or go on to `delete p` a second time.
RunDestructorAgain(W, capsule) ==
    LET p == W.capsules[capsule].pointer
    IN IF W.heap[p].st = "freed"
       THEN {[crash |-> TRUE, world |-> W], [crash |-> FALSE, world |-> Delete(W, p)]}
       ELSE {[crash |-> FALSE, world |-> RunDestructor(W, capsule)]}

\* Py_DECREF of the last reference: the capsule's destructor runs, then the
\* capsule object is gone.
Py_DECREF(W, capsule) ==
    [RunDestructor(W, capsule) EXCEPT !.capsules[capsule].st = "destroyed"]

\* ------------------------------------------------------------ native arrays
\* Variant: the structs are copied out and the source keeps its own.
MovedFrom_copied(a) == a

\* Variant: only the array struct is moved out, the schema struct stays.
MovedFrom_schema_kept(a) == [a EXCEPT !.array = EmptyArray]

\* extract_arrow_structures(std::move(arr)): what is left in the source value.
MovedFrom(a) == [a EXCEPT !.schema = EmptySchema, !.array = EmptyArray]

FreeSlots(as) == {v \in ArrayIds : as[v].st = "none"}

\* The slot the array value returned by an import is stored in.
NextArray(as) == CHOOSE v \in FreeSlots(as) : \A u \in FreeSlots(as) : v <= u

\* ~array(): each struct the value still owns is released through its callback.
ReleaseOwned(rel, s) ==
    IF s.release # NULL THEN [rel EXCEPT ![s.release] = @ + 1] ELSE rel

DestroyArray(v) ==
    /\ arrays[v].st = "live"
    /\ released' = ReleaseOwned(ReleaseOwned(released, arrays[v].schema), arrays[v].array)
    /\ arrays' = [arrays EXCEPT ![v] = DestroyedValue]
    /\ ret' = NoRet
    /\ UNCHANGED <<heap, capsules, buffers, capReleased, deleted, snap, moves>>
    /\ UNCHANGED svars

\* The host drops its last reference to a capsule made by this library.
DestroyCapsule(c) ==
    /\ capsules[c].st = "live"
    /\ capsules[c].destructor # "host"
    /\ Commit(Py_DECREF(World, c))
    /\ ret' = NoRet
    /\ UNCHANGED <<arrays, buffers, snap, moves>>
    /\ UNCHANGED svars

\* ---------------------------------------------------------------- export
\* Variant: the array copy is freed without its release being called.
ExportSchemaCapsuleFailed_array_not_released(W, schema_ptr, array_ptr) ==
    LET W1 == IF W.heap[schema_ptr].obj.release # NULL
              THEN Release(W, schema_ptr, FALSE) ELSE W
        W2 == Delete(W1, schema_ptr)
    IN Delete(W2, array_ptr)

\* The first PyCapsule_New failed: both heap copies are released and freed.
ExportSchemaCapsuleFailed(W, schema_ptr, array_ptr) ==
    LET W1 == IF W.heap[schema_ptr].obj.release # NULL
              THEN Release(W, schema_ptr, FALSE) ELSE W
        W2 == Delete(W1, schema_ptr)
        W3 == IF W2.heap[array_ptr].obj.release # NULL
              THEN Release(W2, array_ptr, FALSE) ELSE W2
    IN Delete(W3, array_ptr)

\* Variant: the schema capsule is not dropped.
ExportArrayCapsuleFailed_no_decref(W, schema_capsule, array_ptr) ==
    LET W2 == IF W.heap[array_ptr].obj.release # NULL
              THEN Release(W, array_ptr, FALSE) ELSE W
    IN Delete(W2, array_ptr)

\* The second PyCapsule_New failed: the schema capsule is dropped, the array
\* copy is released and freed.
ExportArrayCapsuleFailed(W, schema_capsule, array_ptr) ==
    LET W1 == Py_DECREF(W, schema_capsule)
        W2 == IF W1.heap[array_ptr].obj.release # NULL
              THEN Release(W1, array_ptr, FALSE) ELSE W1
    IN Delete(W2, array_ptr)

\* One more export of the buffer sets the call extracted.
CountExport(m, schema_release, array_release) ==
    [b \in Bufs |-> IF b = schema_release \/ b = array_release
                    THEN [m[b] EXCEPT !.exported = @ + 1] ELSE m[b]]

\* The body of export_array_to_capsules applied to the array `value` that
\* holds `values`; `arr` is the slot the call is about.  `fail` says which
\* PyCapsule_New, if any, returns NULL (0: none, 1: the schema capsule's,
\* 2: the array capsule's), `entry` the Python entry point that made the call.
export_capsules(op, arr, value, values, fail, entry) ==
    /\ LET arrow_array == value.array
           arrow_schema == value.schema
           schema_ptr == NextPtr(heap)
           W1 == New(World, schema_ptr, arrow_schema)
           array_ptr == NextPtr(W1.heap)
           W2 == New(W1, array_ptr, arrow_array)
           schema_capsule == IF fail = 1 THEN NULL ELSE NextCapsule(W2.capsules)
           W3 == IF schema_capsule = NULL THEN W2
                 ELSE PyCapsule_New(W2, schema_capsule, schema_ptr, arrow_schema_str,
                                    "release_arrow_schema_pycapsule")
           array_capsule == IF fail # 0 THEN NULL ELSE NextCapsule(W3.capsules)
           W4 == IF array_capsule = NULL THEN W3
                 ELSE PyCapsule_New(W3, array_capsule, array_ptr, arrow_array_str,
                                    "release_arrow_array_pycapsule")
           call == [op |-> op, arr |-> arr, schema_capsule |-> schema_capsule,
                    array_capsule |-> array_capsule,
                    schema |-> schema_ptr, array |-> array_ptr,
                    schema_release |-> arrow_schema.release,
                    array_release |-> arrow_array.release, result |-> NoValue,
                    entry |-> entry]
           before == [returned |-> TRUE, pair |-> schema_capsule,
                      size |-> Size(value), null_count |-> NullCount(value),
                      values |-> values, taken |-> 0]
       IN /\ moves' = CountExport(moves, arrow_schema.release, arrow_array.release)
          /\ IF schema_capsule = NULL
             THEN /\ Commit(ExportSchemaCapsuleFailed(W2, schema_ptr, array_ptr))
                  /\ ret' = call @@ [first |-> NULL, second |-> NULL, err |-> TRUE]
                  /\ snap' = snap
             ELSE IF array_capsule = NULL
             THEN /\ Commit(ExportArrayCapsuleFailed(W3, schema_capsule, array_ptr))
                  /\ ret' = call @@ [first |-> NULL, second |-> NULL, err |-> TRUE]
                  /\ snap' = snap
             ELSE /\ Commit(W4)
                  /\ ret' = call @@ [first |-> schema_capsule, second |-> array_capsule,
                                     err |-> FALSE]
                  /\ snap' = [snap EXCEPT ![schema_capsule] = before,
                                          ![array_capsule] = before]
    /\ UNCHANGED svars

\* export_array_to_capsules(arr): the array is moved from.
export_array_to_capsules_from(arr, fail, entry) ==
    /\ Owns(arrays[arr])
    /\ export_capsules("export", arr, arrays[arr], Values(arrays[arr]), fail, entry)
    /\ arrays' = [arrays EXCEPT ![arr] = MovedFrom(arrays[arr])]
    /\ UNCHANGED buffers

export_array_to_capsules(arr, fail) == export_array_to_capsules_from(arr, fail, NoEntry)

\* Buffer sets no copy has been made into yet, in the order they are taken.
FreeCopyBufs(h) ==
    {b \in CopyBufs : \A p \in Ptrs : h[p].st = "unalloc" \/ h[p].obj.private_data # b}
NextCopyBuf(h) == CHOOSE b \in FreeCopyBufs(h) : \A d \in FreeCopyBufs(h) : b <= d

\* Variant: the struct is copied field by field and shares the source's
\* release and data.
CopySchema_shallow(schema, b) == schema

\* new ArrowSchema(); sparrow::copy_schema(*schema, *schema_ptr): a deep copy
\* into the buffer set b, with a release of its own.
CopySchema(schema, b) == [schema EXCEPT !.release = b, !.private_data = b]

\* export_schema_to_capsule(arr); fail = 1: PyCapsule_New returns NULL.
export_schema_to_capsule(arr, fail) ==
    /\ Owns(arrays[arr])
    /\ Cardinality(CopyBufs \ FreeCopyBufs(heap)) < MaxCopies
    /\ \E p \in Ptrs : heap[p].st = "unalloc"
    /\ \E c \in CapIds : capsules[c].st = "none"
    /\ LET schema == arrays[arr].schema
           schema_ptr == NextPtr(heap)
           W1 == New(World, schema_ptr, CopySchema(schema, NextCopyBuf(heap)))
           capsule == IF fail = 1 THEN NULL ELSE NextCapsule(W1.capsules)
           call == [NoRet EXCEPT !.op = "export_schema_to_capsule", !.arr = arr,
                                 !.schema_capsule = capsule, !.schema = schema_ptr,
                                 !.schema_release = W1.heap[schema_ptr].obj.release,
                                 !.first = capsule, !.err = (capsule = NULL)]
       IN IF capsule = NULL
          THEN /\ Commit(Delete(IF W1.heap[schema_ptr].obj.release # NULL
                                THEN Release(W1, schema_ptr, FALSE) ELSE W1, schema_ptr))
               /\ ret' = call
          ELSE /\ Commit(PyCapsule_New(W1, capsule, schema_ptr, arrow_schema_str,
                                       "release_arrow_schema_pycapsule"))
               /\ ret' = call
    /\ UNCHANGED <<arrays, buffers, snap, moves>>
    /\ UNCHANGED svars

\* ---------------------------------------------------------------- import
\* PyCapsule_GetPointer(schema_capsule, arrow_schema_str)
get_arrow_schema_pycapsule(caps, capsule) ==
    PyCapsule_GetPointer(caps, capsule, arrow_schema_str)

\* Variant: the pointer of any live capsule, whatever its name.
get_arrow_array_pycapsule_any_name(caps, capsule) ==
    IF capsule = NULL THEN NULL
    ELSE IF caps[capsule].st # "live" THEN NULL
    ELSE caps[capsule].pointer

\* PyCapsule_GetPointer(array_capsule, arrow_array_str)
get_arrow_array_pycapsule(caps, capsule) ==
    PyCapsule_GetPointer(caps, capsule, arrow_array_str)

\* Variant: the release fields of the originals are left as they are.
MarkReleased_skipped(h, schema, arr) == h

\* Variant: only schema->release is cleared.
MarkReleased_schema_only(h, schema, arr) == [h EXCEPT ![schema].obj.release = NULL]

\* Variant: only arr->release is cleared.
MarkReleased_array_only(h, schema, arr) == [h EXCEPT ![arr].obj.release = NULL]

\* schema->release = nullptr; arr->release = nullptr;
MarkReleased(h, schema, arr) ==
    [h EXCEPT ![schema].obj.release = NULL, ![arr].obj.release = NULL]

\* One more import of every buffer set whose live release the import took.
CountImport(m, schema_release, array_release) ==
    [b \in Bufs |-> IF b = schema_release \/ b = array_release
                    THEN [m[b] EXCEPT !.imported = @ + 1] ELSE m[b]]

\* import_array_from_capsules(schema_capsule, array_capsule): what the call
\* returns and leaves behind.  An array built from the two structs is stored
\* in the next free slot; the empty array of the failure paths holds nothing
\* and is only recorded as the result.  `room` is false when the model has
\* no slot left for the array.
ImportOutcome(schema_capsule, array_capsule) ==
    LET schema == get_arrow_schema_pycapsule(capsules, schema_capsule)
        arr == IF schema = NULL THEN NULL
               ELSE get_arrow_array_pycapsule(capsules, array_capsule)
        call == [op |-> "import", schema_capsule |-> NULL, array_capsule |-> NULL,
                 schema |-> schema, array |-> arr, first |-> NULL, second |-> NULL,
                 entry |-> NoEntry]
        failed == [room |-> TRUE, heap |-> heap, arrays |-> arrays, snap |-> snap,
                   moves |-> moves,
                   ret |-> call @@ [arr |-> NULL, err |-> TRUE, schema_release |-> NULL,
                                    array_release |-> NULL, result |-> EmptyValue]]
    IN IF schema = NULL \/ arr = NULL THEN failed
       ELSE IF FreeSlots(arrays) = {} THEN [failed EXCEPT !.room = FALSE]
       ELSE LET schema_moved == heap[schema].obj
                array_moved == heap[arr].obj
                res == NextArray(arrays)
                built == [st |-> "live", schema |-> schema_moved, array |-> array_moved]
            IN [room |-> TRUE,
                heap |-> MarkReleased(heap, schema, arr),
                arrays |-> [arrays EXCEPT ![res] = built],
                snap |-> [snap EXCEPT ![schema_capsule].taken = @ + 1,
                                      ![array_capsule].taken = @ + 1],
                moves |-> CountImport(moves, schema_moved.release, array_moved.release),
                ret |-> call @@ [arr |-> res, err |-> FALSE,
                                 schema_release |-> schema_moved.release,
                                 array_release |-> array_moved.release,
                                 result |-> built]]

import_array_from_capsules(schema_capsule, array_capsule) ==
    LET out == ImportOutcome(schema_capsule, array_capsule)
    IN /\ out.room
       /\ heap' = out.heap
       /\ arrays' = out.arrays
       /\ snap' = out.snap
       /\ moves' = out.moves
       /\ ret' = out.ret
       /\ UNCHANGED <<capsules, buffers, released, capReleased, deleted>>
       /\ UNCHANGED svars

\* ------------------------------------------------------------------ streams
\* What `ret` records of a call on a stream: the SparrowStream or proxy, the
\* array pushed, the capsule passed or returned, the heap copy of the stream
\* struct, whether a Python error is set, the C++ exception thrown, the arrays
\* returned (`has_value` for the option pop returns), which step of the export
\* failed, m_consumed at entry, the number of get_next calls, the release
\* field, when the call began, of the struct get_next was called on, and what
\* came of a get_next on a stream whose private state had been freed.
NoStreamRet == [op |-> "none", stream |-> NULL, item |-> NULL, capsule |-> NULL,
                heap_stream |-> NULL, err |-> FALSE, thrown |-> "none",
                result |-> <<>>, has_value |-> FALSE, fail |-> 0,
                was_consumed |-> FALSE, get_next |-> 0,
                stream_release |-> NULL, use_after_free |-> "none", loop |-> NULL,
                entry |-> NoEntry, discarded |-> <<>>]

\* stream->get_next(stream, &array) after stream->release(stream) has freed
\* the private state it reads: undefined behaviour.  It may find an empty
\* queue, hand out what the freed memory holds, or end the process.
UseAfterFree == {"end_of_stream", "garbage", "crash"}

\* The private state `stream` points to has been freed by its release.
Freed(stream) == stream.private_data # NULL /\ released[stream.private_data] > 0

\* The arrays a caller still holds, and the one it uses next: arrays are
\* interchangeable, so a caller uses them in the order it made them.
HeldItems == {i \in Items : held[i] = "caller"}
NextItem == CHOOSE i \in HeldItems : \A j \in HeldItems : i <= j

\* Variant: the flag is not looked at, the stream always passes for Active.
m_consumed_unread(s) == FALSE

\* The member m_consumed of SparrowStream s, as its functions read it.
m_consumed(s) == proxies[s].m_consumed

\* Variant: the stream passes for consumed only while the capsule it
\* exported is alive.
is_consumed_while_exported(s) ==
    /\ proxies[s].exported # NULL
    /\ capsules[proxies[s].exported].st = "live"

\* SparrowStream::is_consumed
is_consumed(s) == m_consumed(s)

\* Variant: the array is put in front of the pending arrays.
proxy_push_front(pending, item) == <<item>> \o pending

\* arrow_array_stream_proxy::push: the array joins the pending arrays.
proxy_push(pending, item) == Append(pending, item)

\* SparrowStream::push(SparrowArray&& arr)
push(s, item) ==
    /\ proxies[s].st = "live" /\ proxies[s].wrapped
    /\ HeldItems # {} /\ item = NextItem
    /\ LET b == proxies[s].stream.private_data
           call == [NoStreamRet EXCEPT !.op = "push", !.stream = s, !.item = item,
                                       !.was_consumed = proxies[s].m_consumed]
       IN IF m_consumed(s)
          THEN /\ ret' = [call EXCEPT !.thrown = "runtime_error"]
               /\ UNCHANGED svars
          ELSE /\ stream_data' = [stream_data EXCEPT ![b].arrays = proxy_push(@, item)]
               /\ proxies' = [proxies EXCEPT ![s].pushed = Append(@, item)]
               /\ held' = [held EXCEPT ![item] = "moved"]
               /\ ret' = call
    /\ UNCHANGED <<arrays, objects, heap, capsules, buffers, released, capReleased, deleted, snap, moves>>

\* Variant: a pop that finds nothing marks the stream consumed.
pop_exhausted_consumes(proxy) == [proxy EXCEPT !.eos = TRUE, !.m_consumed = TRUE]

\* pop found nothing: the proxy as it is left (std::nullopt is returned).
pop_exhausted(proxy) == [proxy EXCEPT !.eos = TRUE]

\* arrow_array_stream_proxy::pop on proxy p: get_next on its stream.
proxy_pop_step(p, call) ==
    LET b == proxies[p].stream.private_data
        pending == stream_data[b].arrays
        next == [call EXCEPT !.get_next = 1,
                             !.stream_release = proxies[p].stream.release]
    IN IF Freed(proxies[p].stream)
       THEN /\ \E outcome \in UseAfterFree : ret' = [next EXCEPT !.use_after_free = outcome]
            /\ UNCHANGED <<proxies, stream_data, held>>
       ELSE IF pending = <<>>
       THEN /\ proxies' = [proxies EXCEPT ![p] = pop_exhausted(@)]
            /\ ret' = next
            /\ UNCHANGED <<stream_data, held>>
       ELSE /\ stream_data' = [stream_data EXCEPT ![b].arrays = Tail(pending)]
            /\ proxies' = [proxies EXCEPT ![p].popped = Append(@, Head(pending))]
            /\ held' = [held EXCEPT ![Head(pending)] = "returned"]
            /\ ret' = [next EXCEPT !.has_value = TRUE, !.result = <<Head(pending)>>]

\* SparrowStream::pop()
pop(s) ==
    /\ proxies[s].st = "live" /\ proxies[s].wrapped
    /\ LET call == [NoStreamRet EXCEPT !.op = "pop", !.stream = s,
                                       !.was_consumed = proxies[s].m_consumed]
       IN IF m_consumed(s)
          THEN /\ ret' = [call EXCEPT !.thrown = "runtime_error"]
               /\ UNCHANGED svars
          ELSE proxy_pop_step(s, call)
    /\ UNCHANGED <<arrays, objects, heap, capsules, buffers, released, capReleased, deleted, snap, moves>>

\* pop() on a proxy that import_stream_proxy_from_capsule returned.
proxy_pop(p) ==
    /\ proxies[p].st = "live" /\ ~proxies[p].wrapped
    /\ proxies[p].stream.private_data # NULL
    /\ proxy_pop_step(p, [NoStreamRet EXCEPT !.op = "proxy_pop", !.stream = p])
    /\ UNCHANGED <<arrays, objects, heap, capsules, buffers, released, capReleased, deleted, snap, moves>>

\* Variant: a proxy with no pending array hands out nothing.
export_stream_needs_arrays(stream, fail) ==
    fail # 1 /\ stream_data[stream.private_data].arrays # <<>>

\* proxy.export_stream(): whether it hands out the proxy's stream struct;
\* `fail` = 1 stands for a nullptr result.
export_stream(stream, fail) == fail # 1

\* Variant: the proxy's struct keeps its release callback.
ClearSource_skipped(stream) == stream

\* stream_ptr->release = nullptr: the struct left in the proxy.
ClearSource(stream) == [stream EXCEPT !.release = NULL]

\* export_stream_proxy_to_capsule(proxy) on the world W for a proxy whose
\* stream struct is `stream`; `fail` = 2 stands for PyCapsule_New returning
\* NULL.  Gives the world, the proxy's struct, the heap copy and the capsule.
export_stream_proxy_to_capsule(W, stream, fail) ==
    IF ~export_stream(stream, fail)
    THEN [W |-> W, stream |-> stream, heap_stream |-> NULL, capsule |-> NULL]
    ELSE LET heap_stream == NextPtr(W.heap)
             W1 == New(W, heap_stream, stream)
             exported == ClearSource(stream)
             capsule == IF fail = 2 THEN NULL ELSE NextCapsule(W1.capsules)
         IN IF capsule = NULL
            THEN [W |-> Delete(IF W1.heap[heap_stream].obj.release # NULL
                               THEN Release(W1, heap_stream, FALSE) ELSE W1, heap_stream),
                  stream |-> exported, heap_stream |-> heap_stream, capsule |-> NULL]
            ELSE [W |-> PyCapsule_New(W1, capsule, heap_stream, arrow_array_stream_str,
                                      "release_arrow_array_stream_pycapsule"),
                  stream |-> exported, heap_stream |-> heap_stream, capsule |-> capsule]

\* What is recorded of a stream capsule when an export returns it.
StreamSnap(capsule, pending) ==
    [returned |-> TRUE, pair |-> capsule, size |-> Len(pending), null_count |-> 0,
     values |-> pending, taken |-> 0]

\* Variant: the flag is never set.
ConsumedAfterExport_never(capsule) == FALSE

\* m_consumed after a call of export_to_capsule that found it false and got
\* `capsule` from export_stream_proxy_to_capsule.
ConsumedAfterExport(capsule) == TRUE

\* SparrowStream::export_to_capsule(); `entry` is the Python entry point that
\* made the call.
export_to_capsule_from(s, fail, entry) ==
    /\ proxies[s].st = "live" /\ proxies[s].wrapped
    /\ LET call == [NoStreamRet EXCEPT !.op = "export_to_capsule", !.stream = s,
                                       !.fail = fail, !.entry = entry,
                                       !.was_consumed = proxies[s].m_consumed]
           out == export_stream_proxy_to_capsule(World, proxies[s].stream, fail)
       IN IF m_consumed(s)
          THEN /\ ret' = [call EXCEPT !.err = TRUE]
               /\ UNCHANGED <<heap, capsules, released, capReleased, deleted, snap, proxies>>
          ELSE /\ Commit(out.W)
               /\ proxies' = [proxies EXCEPT
                                 ![s].m_consumed = ConsumedAfterExport(out.capsule),
                                 ![s].stream = out.stream,
                                 ![s].exported = out.capsule]
               /\ snap' = IF out.capsule = NULL THEN snap
                          ELSE [snap EXCEPT ![out.capsule] =
                                    StreamSnap(out.capsule,
                                               stream_data[proxies[s].stream.private_data].arrays)]
               /\ ret' = [call EXCEPT !.capsule = out.capsule,
                                      !.heap_stream = out.heap_stream,
                                      !.err = (out.capsule = NULL)]
    /\ UNCHANGED <<arrays, objects, buffers, moves, stream_data, held>>

export_to_capsule(s, fail) == export_to_capsule_from(s, fail, NoEntry)

\* ------------------------------------------------- stream capsule functions
\* Variant: the vector is never found empty.
empty_unchecked(input) == FALSE

\* arrays.empty()
empty(input) == Len(input) = 0

\* The data type of a caller's array: the format of its schema.
ItemFormat(i) == IF i % 2 = 1 THEN "int32" ELSE "utf8"

\* extract_arrow_structures(std::move(arr)): the two structs of the array,
\* each with the release callback of what it describes.
extract_arrow_structures(arr) ==
    [arrow_arr |-> [release |-> arr, item |-> arr],
     arrow_sch |-> [release |-> arr, format |-> ItemFormat(arr)]]

\* Variant: the stream's schema shares the memory of the extracted schema.
copy_schema_aliased(arrow_sch) ==
    [format |-> arrow_sch.format, owner |-> "stream", shares |-> arrow_sch.release]

\* new ArrowSchema() filled by copy_schema: a deep copy with its own release.
copy_schema(arrow_sch) ==
    [format |-> arrow_sch.format, owner |-> "stream", shares |-> NULL]

\* Variant: every array of the input sets the stream's schema.
SetSchema_every_array(st, arr, arrow_sch) ==
    [st EXCEPT !.schema = copy_schema(arrow_sch), !.schema_from = arr,
               !.copies = @ + 1, !.schema_set = TRUE]

\* if (!schema_set) { copy_schema; import_schema; schema_set = true; }
SetSchema(st, arr, arrow_sch) ==
    IF ~st.schema_set
    THEN [st EXCEPT !.schema = copy_schema(arrow_sch), !.schema_from = arr,
                    !.copies = @ + 1, !.schema_set = TRUE]
    ELSE st

\* The locals of export_arrays_to_stream_capsule before its loop.  `steps`
\* records, for each iteration, what became of the two extracted structs.
LoopStart == [pending |-> <<>>, schema |-> NULL, schema_from |-> NULL, copies |-> 0,
              schema_set |-> FALSE, steps |-> <<>>]

\* The loop of export_arrays_to_stream_capsule: every array of the input is
\* extracted and handed to the private state, in the order of the input.
RECURSIVE import_array_loop(_, _)
import_array_loop(st, input) ==
    IF input = <<>> THEN st
    ELSE LET arr == Head(input)
             ex == extract_arrow_structures(arr)
             st1 == SetSchema(st, arr, ex.arrow_sch)
             array_ptr == ex.arrow_arr                          \* new ArrowArray(arrow_arr)
             arrow_arr == [ex.arrow_arr EXCEPT !.release = NULL] \* arrow_arr = ArrowArray{}
             sch_calls == IF ex.arrow_sch.release # NULL THEN 1 ELSE 0
             step == [item |-> arr, imported |-> array_ptr.item,
                      arrow_arr |-> arrow_arr.release,
                      sch_released |-> sch_calls,
                      schema_copied |-> st1.copies > st.copies]
         IN import_array_loop([st1 EXCEPT !.pending = Append(@, array_ptr.item),
                                          !.steps = Append(@, step)],
                              Tail(input))

\* fill_arrow_array_stream(temp_stream): the private state it allocates.
FreeStreamBufs(sd) == {b \in StreamBufs : ~sd[b].alloc}
NextStreamBuf(sd) == CHOOSE b \in FreeStreamBufs(sd) : \A d \in FreeStreamBufs(sd) : b <= d

\* Variant: a proxy that never releases the stream it owns.
DestroyLocalProxy_no_release(W, stream) == W

\* ~arrow_array_stream_proxy() of a local proxy that owns `stream`.
DestroyLocalProxy(W, stream) ==
    IF stream.release # NULL THEN [W EXCEPT !.released[stream.release] = @ + 1] ELSE W

\* Vectors of arrays a caller can pass: the next arrays it holds, in the
\* order it made them.
Vectors ==
    {v \in UNION {[1..n -> Items] : n \in 0..MaxVector} :
        /\ \A k \in DOMAIN v : v[k] \in HeldItems
        /\ \A k \in DOMAIN v : Cardinality({j \in HeldItems : j < v[k]}) = k - 1}

\* export_arrays_to_stream_capsule(arrays)
export_arrays_to_stream_capsule(input, fail) ==
    /\ LET call == [NoStreamRet EXCEPT !.op = "export_arrays_to_stream_capsule",
                                       !.result = input, !.fail = fail]
       IN IF empty(input)
          THEN /\ ret' = [call EXCEPT !.err = TRUE]
               /\ UNCHANGED <<heap, capsules, released, capReleased, deleted, snap,
                              stream_data, held>>
          ELSE /\ FreeStreamBufs(stream_data) # {}
               /\ LET b == NextStreamBuf(stream_data)
                      loop == import_array_loop(LoopStart, input)
                      pending == loop.pending
                      out == export_stream_proxy_to_capsule(World, StreamStruct(b), fail)
                  IN /\ stream_data' = [stream_data EXCEPT
                                           ![b] = [alloc |-> TRUE, arrays |-> pending]]
                     /\ held' = [i \in Items |->
                                    IF \E k \in DOMAIN input : input[k] = i
                                    THEN "moved" ELSE held[i]]
                     /\ Commit(DestroyLocalProxy(out.W, out.stream))
                     /\ snap' = IF out.capsule = NULL THEN snap
                                ELSE [snap EXCEPT ![out.capsule] =
                                          StreamSnap(out.capsule, input)]
                     /\ ret' = [call EXCEPT !.capsule = out.capsule,
                                            !.heap_stream = out.heap_stream,
                                            !.stream = b,
                                            !.err = (out.capsule = NULL),
                                            !.loop = loop]
    /\ UNCHANGED <<arrays, objects, buffers, moves, proxies>>

\* Variant: the pointer of any live capsule is taken, whatever its name.
get_arrow_array_stream_pycapsule_any_name(caps, capsule) ==
    IF capsule = NULL \/ caps[capsule].st # "live" THEN NULL ELSE caps[capsule].pointer

\* PyCapsule_GetPointer(stream_capsule, arrow_array_stream_str)
get_arrow_array_stream_pycapsule(caps, capsule) ==
    PyCapsule_GetPointer(caps, capsule, arrow_array_stream_str)

\* Variant: every array popped is put in front of the result.
RECURSIVE pop_all_reversed(_, _)
pop_all_reversed(pending, result) ==
    IF pending = <<>> THEN result
    ELSE pop_all_reversed(Tail(pending), <<Head(pending)>> \o result)

\* while (auto arr_opt = proxy.pop()) result.push_back(std::move(*arr_opt));
RECURSIVE pop_all(_, _)
pop_all(pending, result) ==
    IF pending = <<>> THEN result
    ELSE pop_all(Tail(pending), Append(result, Head(pending)))

\* Variant: the loop asks once more after the stream reported its end.
RECURSIVE get_next_calls_after_end(_, _)
get_next_calls_after_end(pending, calls) ==
    IF pending = <<>> THEN calls + 2
    ELSE get_next_calls_after_end(Tail(pending), calls + 1)

\* The get_next calls of the same loop: one per proxy.pop(), the last of
\* which yields a released array, for which pop returns nullopt.
RECURSIVE get_next_calls(_, _)
get_next_calls(pending, calls) ==
    IF pending = <<>> THEN calls + 1
    ELSE get_next_calls(Tail(pending), calls + 1)

\* Variant: the struct in the capsule keeps its release callback.
MarkStreamConsumed_skipped(h, stream) == h

\* stream->release = nullptr;
MarkStreamConsumed(h, stream) == [h EXCEPT ![stream].obj.release = NULL]

\* Variant: the last array of the vector is the one returned.
first_array_last(vec) ==
    IF vec = <<>> THEN <<>> ELSE <<vec[Len(vec)]>>

\* if (arrays.empty()) return array{}; return std::move(arrays[0]);
\* the array returned, as a sequence of at most one (<<>>: the empty array).
first_array(vec) == IF vec = <<>> THEN <<>> ELSE <<Head(vec)>>

\* What a stream import gives its caller of the vector `result` it filled,
\* and what dies with the vector: import_arrays_from_stream_capsule returns
\* the vector, import_array_from_stream_capsule its first array.
Returned(op, result) ==
    IF op = "import_array_from_stream_capsule" THEN first_array(result) ELSE result
Discarded(op, result) ==
    LET kept == Returned(op, result)
    IN SelectSeq(result, LAMBDA i : \A k \in DOMAIN kept : kept[k] # i)

\* import_arrays_from_stream_capsule(stream_capsule), called by the host
\* (op = "import_arrays_from_stream_capsule") or by
\* import_array_from_stream_capsule, whose own steps are then part of it.
stream_import(op, stream_capsule) ==
    /\ LET stream == get_arrow_array_stream_pycapsule(capsules, stream_capsule)
           call == [NoStreamRet EXCEPT !.op = op, !.heap_stream = stream]
       IN IF stream = NULL
          THEN /\ ret' = [call EXCEPT !.err = TRUE]
               /\ UNCHANGED <<heap, snap, stream_data, held>>
          ELSE LET b == heap[stream].obj.private_data
                   result == pop_all(stream_data[b].arrays, <<>>)
                   next == [call EXCEPT !.capsule = stream_capsule,
                                        !.stream_release = heap[stream].obj.release]
               IN /\ snap[stream_capsule].taken < MaxTaken
                  /\ heap' = MarkStreamConsumed(heap, stream)
                  /\ snap' = [snap EXCEPT ![stream_capsule].taken = @ + 1]
                  /\ IF Freed(heap[stream].obj)
                     THEN /\ \E outcome \in UseAfterFree :
                                ret' = [next EXCEPT !.get_next = 1,
                                                    !.use_after_free = outcome]
                          /\ UNCHANGED <<stream_data, held>>
                     ELSE /\ stream_data' = [stream_data EXCEPT ![b].arrays = <<>>]
                          /\ LET kept == Returned(op, result)
                                 dropped == Discarded(op, result)
                             IN /\ held' = [i \in Items |->
                                               IF \E k \in DOMAIN kept : kept[k] = i
                                               THEN "returned"
                                               ELSE IF \E k \in DOMAIN dropped : dropped[k] = i
                                               THEN "destroyed" ELSE held[i]]
                                /\ ret' = [next EXCEPT
                                              !.result = kept,
                                              !.discarded = dropped,
                                              !.get_next =
                                                  get_next_calls(stream_data[b].arrays, 0)]
    /\ UNCHANGED <<arrays, objects, capsules, buffers, released, capReleased, deleted, moves, proxies>>

import_arrays_from_stream_capsule(stream_capsule) ==
    stream_import("import_arrays_from_stream_capsule", stream_capsule)

\* import_array_from_stream_capsule(stream_capsule)
import_array_from_stream_capsule(stream_capsule) ==
    stream_import("import_array_from_stream_capsule", stream_capsule)

FreeProxies(ps) == {p \in ProxyIds : ps[p].st = "none"}
NextProxy(ps) == CHOOSE p \in FreeProxies(ps) : \A q \in FreeProxies(ps) : p <= q

\* import_stream_proxy_from_capsule(stream_capsule).  The proxy of the
\* success path is stored in the next free slot; the empty proxy of the
\* failure path is only recorded as the (empty) result.
import_stream_proxy_from_capsule(stream_capsule) ==
    /\ LET stream == get_arrow_array_stream_pycapsule(capsules, stream_capsule)
           call == [NoStreamRet EXCEPT !.op = "import_stream_proxy_from_capsule",
                                       !.heap_stream = stream]
       IN IF stream = NULL
          THEN /\ ret' = [call EXCEPT !.err = TRUE]
               /\ UNCHANGED <<heap, snap, proxies>>
          ELSE /\ FreeProxies(proxies) # {}
               /\ snap[stream_capsule].taken < MaxTaken
               /\ LET stream_copy == heap[stream].obj
                      p == NextProxy(proxies)
                  IN /\ heap' = MarkStreamConsumed(heap, stream)
                     /\ proxies' = [proxies EXCEPT
                                       ![p] = [NoProxy EXCEPT !.st = "live",
                                                              !.stream = stream_copy,
                                                              !.source = stream_capsule]]
                     /\ snap' = [snap EXCEPT ![stream_capsule].taken = @ + 1]
                     /\ ret' = [call EXCEPT !.capsule = stream_capsule, !.stream = p]
    /\ UNCHANGED <<arrays, objects, capsules, buffers, released, capReleased, deleted, moves,
                   stream_data, held>>

\* ~arrow_array_stream_proxy(): the proxy releases the stream it owns.  For
\* a SparrowStream this is the destructor of its member m_stream_proxy.
DestroyProxy(p) ==
    /\ proxies[p].st = "live"
    /\ Commit(DestroyLocalProxy(World, proxies[p].stream))
    /\ proxies' = [proxies EXCEPT ![p].st = "destroyed"]
    /\ ret' = [NoStreamRet EXCEPT !.op = "destroy_proxy", !.stream = p]
    /\ UNCHANGED <<arrays, objects, buffers, snap, moves, stream_data, held>>

\* ~array() of an array that a pop or a stream import returned.
DestroyItem(i) ==
    /\ held[i] = "returned"
    /\ held' = [held EXCEPT ![i] = "destroyed"]
    /\ ret' = [NoStreamRet EXCEPT !.op = "destroy_array", !.item = i]
    /\ UNCHANGED <<arrays, objects, heap, capsules, buffers, released, capReleased, deleted,
                   snap, moves, proxies, stream_data>>

\* Objects the host may pass as a capsule argument: any live capsule, or
\* something that is not a capsule.
Handles == {NULL} \cup {c \in CapIds : capsules[c].st = "live"}

Next ==
    \/ \E arr \in ArrayIds, fail \in 0..2 : export_array_to_capsules(arr, fail)
    \/ \E s \in Handles, a \in Handles : import_array_from_capsules(s, a)
    \/ \E c \in CapIds : DestroyCapsule(c)
    \/ \E v \in ArrayIds : DestroyArray(v)

\* Every native array holds the first MaxLen elements of the test array
\* [1, 2, null, 4, 5].
TestValues == [k \in 1..MaxLen |-> IF k = 3 THEN <<0, FALSE>> ELSE <<k, TRUE>>]

Init == InitWith([i \in InitialArrays |-> TestValues])

Spec == Init /\ [][Next]_vars

\* A SparrowStream in use: its three operations, what the host does with the
\* capsule it exports (import it, destroy it) and with an imported proxy.
NextSparrowStream ==
    \/ \E s \in SparrowStreams, item \in Items : push(s, item)
    \/ \E s \in SparrowStreams : pop(s)
    \/ \E s \in SparrowStreams, fail \in 0..2 : export_to_capsule(s, fail)
    \/ \E c \in Handles : import_arrays_from_stream_capsule(c)
    \/ \E c \in Handles : import_stream_proxy_from_capsule(c)
    \/ \E p \in ProxyIds : proxy_pop(p)
    \/ \E c \in CapIds : DestroyCapsule(c)
    \/ \E p \in ProxyIds : DestroyProxy(p)

SpecSparrowStream == Init /\ [][NextSparrowStream]_vars

\* The stream capsule functions of pycapsule.cpp, and the host destroying a
\* capsule.
NextStreamCapsule ==
    \/ \E input \in Vectors, fail \in 0..2 : export_arrays_to_stream_capsule(input, fail)
    \/ \E c \in Handles : import_arrays_from_stream_capsule(c)
    \/ \E c \in Handles : import_stream_proxy_from_capsule(c)
    \/ \E p \in ProxyIds : proxy_pop(p)
    \/ \E c \in CapIds : DestroyCapsule(c)
    \/ \E p \in ProxyIds : DestroyProxy(p)
    \/ \E i \in Items : DestroyItem(i)

SpecStreamCapsule == Init /\ [][NextStreamCapsule]_vars

\* A stream capsule read through import_array_from_stream_capsule, alone or
\* after other reads.
NextStreamFirst ==
    \/ \E v \in Vectors, fail \in 0..2 : export_arrays_to_stream_capsule(v, fail)
    \/ \E c \in Handles : import_array_from_stream_capsule(c)
    \/ \E c \in Handles : import_arrays_from_stream_capsule(c)
    \/ \E c \in CapIds : DestroyCapsule(c)
    \/ \E i \in Items : DestroyItem(i)

SpecStreamFirst == Init /\ [][NextStreamFirst]_vars

\* Both ways of making a stream capsule and both ways of reading one.
NextStreamRoundTrip ==
    \/ \E s \in SparrowStreams, item \in Items : push(s, item)
    \/ \E s \in SparrowStreams, fail \in 0..2 : export_to_capsule(s, fail)
    \/ \E input \in Vectors, fail \in 0..2 : export_arrays_to_stream_capsule(input, fail)
    \/ \E c \in Handles : import_arrays_from_stream_capsule(c)
    \/ \E c \in Handles : import_stream_proxy_from_capsule(c)
    \/ \E p \in ProxyIds : proxy_pop(p)

SpecStreamRoundTrip == Init /\ [][NextStreamRoundTrip]_vars

\* ------------------------------------------------------ Python entry points
\* What a caller can pass as requested_schema: nothing, None, a schema
\* capsule, or any other object.
RequestedSchemas == {"omitted", "None", "schema_capsule", "object"}

\* Variant: a requested_schema other than None is refused.
PyArg_ParseRequestedSchema_none_only(requested_schema) ==
    requested_schema \in {"omitted", "None"}

\* PyArg_ParseTupleAndKeywords(args, kwargs, "|O", {"requested_schema"}, ...)
\* of a call with at most that one argument: any object is accepted.
PyArg_ParseRequestedSchema(requested_schema) == requested_schema \in RequestedSchemas

\* The model has n heap cells and n capsule handles left to give out.
Room(n) ==
    /\ Cardinality({p \in Ptrs : heap[p].st = "unalloc"}) >= n
    /\ Cardinality({c \in CapIds : capsules[c].st = "none"}) >= n

\* SparrowArray_arrow_c_array(self, requested_schema).  self is the slot of
\* *self->arr, or NULL when self->arr is null.  The tuple takes over the two
\* references, so the capsules live on with the result.
SparrowArray_arrow_c_array_from(self, requested_schema, fail, entry) ==
    IF ~PyArg_ParseRequestedSchema(requested_schema) \/ self = NULL
    THEN /\ ret' = [NoRet EXCEPT !.op = "SparrowArray_arrow_c_array", !.err = TRUE,
                                 !.entry = entry]
         /\ UNCHANGED <<arrays, heap, capsules, buffers, released, capReleased, deleted,
                        snap, moves>>
         /\ UNCHANGED svars
    ELSE Room(2) /\ export_array_to_capsules_from(self, fail, entry)

SparrowArray_arrow_c_array(self, requested_schema, fail) ==
    SparrowArray_arrow_c_array_from(self, requested_schema, fail,
                                    Entry("SparrowArray_arrow_c_array", requested_schema))

\* sparrow_stream_to_stream(self, requested_schema): the parameter has no
\* name in the function; a null capsule becomes a Python exception.
sparrow_stream_to_stream_from(self, requested_schema, fail, entry) ==
    Room(1) /\ export_to_capsule_from(self, fail, entry)

sparrow_stream_to_stream(self, requested_schema, fail) ==
    sparrow_stream_to_stream_from(self, requested_schema, fail,
                                  Entry("sparrow_stream_to_stream", requested_schema))

\* The Python object a constructor returns: none (a null return), or a
\* SparrowArray whose arr points to the array of slot `arr`, or to an empty
\* array when `empty`.
NoObject == [returned |-> FALSE, arr |-> NULL, empty |-> FALSE]

\* create_sparrow_array_object(std::move(arr)) on the arrays `as` and release
\* counts `rel`; arr = NULL stands for the empty array.  fail = 1: the type
\* or the object cannot be made, and the array dies with the caller's local.
\* SparrowArray_new does the same with tp_alloc (lines 314-320).
create_sparrow_array_object(as, rel, arr, fail) ==
    IF fail = 0
    THEN [object |-> [returned |-> TRUE, arr |-> arr, empty |-> (arr = NULL)],
          arrays |-> as, released |-> rel]
    ELSE [object |-> NoObject,
          arrays |-> IF arr = NULL THEN as ELSE [as EXCEPT ![arr] = DestroyedValue],
          released |-> IF arr = NULL THEN rel
                       ELSE ReleaseOwned(ReleaseOwned(rel, as[arr].schema), as[arr].array)]

\* What `ret` records of a constructor call: the record of the import, the
\* object returned, whether the import had failed, and in `err` whether a
\* Python error is set when the constructor returns.
ConstructorRet(op, import_ret, object) ==
    [import_ret EXCEPT !.op = op, !.err = import_ret.err \/ ~object.returned]
        @@ [object |-> object, import_failed |-> import_ret.err]

\* create_sparrow_array_object_from_capsules(schema_capsule, array_capsule)
create_sparrow_array_object_from_capsules(schema_capsule, array_capsule, fail) ==
    LET out == ImportOutcome(schema_capsule, array_capsule)
        made == create_sparrow_array_object(out.arrays, released, out.ret.arr, fail)
    IN /\ out.room
       /\ heap' = out.heap
       /\ arrays' = made.arrays
       /\ released' = made.released
       /\ snap' = out.snap
       /\ moves' = out.moves
       /\ ret' = ConstructorRet("create_sparrow_array_object_from_capsules",
                                out.ret, made.object)
       /\ UNCHANGED <<capsules, buffers, capReleased, deleted>>
       /\ UNCHANGED svars

\* Py_DECREF(capsules) of a tuple that holds the last reference to its
\* elements: each element that is a capsule of this library is destroyed.
DropElement(W, c) ==
    IF c # NULL /\ W.capsules[c].st = "live" /\ W.capsules[c].destructor # "host"
    THEN Py_DECREF(W, c) ELSE W
DropTuple(W, schema_capsule, array_capsule) ==
    DropElement(DropElement(W, array_capsule), schema_capsule)

\* SparrowArray_new(type, args, kwargs).  tuple_ok: the argument has an
\* __arrow_c_array__ that returns a tuple of two elements, here
\* (schema_capsule, array_capsule); last: the tuple holds the last reference
\* to them.
SparrowArray_new(tuple_ok, schema_capsule, array_capsule, last, fail) ==
    IF ~tuple_ok
    THEN /\ ret' = [NoRet EXCEPT !.op = "SparrowArray_new", !.err = TRUE]
                       @@ [object |-> NoObject, import_failed |-> FALSE]
         /\ UNCHANGED <<arrays, heap, capsules, buffers, released, capReleased, deleted,
                        snap, moves>>
         /\ UNCHANGED svars
    ELSE LET out == ImportOutcome(schema_capsule, array_capsule)
             W1 == [World EXCEPT !.heap = out.heap]
             W2 == IF last THEN DropTuple(W1, schema_capsule, array_capsule) ELSE W1
             made == create_sparrow_array_object(out.arrays, W2.released, out.ret.arr, fail)
         IN /\ out.room
            /\ Commit([W2 EXCEPT !.released = made.released])
            /\ arrays' = made.arrays
            /\ snap' = out.snap
            /\ moves' = out.moves
            /\ ret' = ConstructorRet("SparrowArray_new", out.ret, made.object)
            /\ UNCHANGED buffers
            /\ UNCHANGED svars

\* The export entry points of the Python classes, a stream being filled, and
\* the host destroying capsules and arrays.
NextEntryPoints ==
    \/ \E self \in ArrayIds \cup {NULL}, requested_schema \in RequestedSchemas, fail \in 0..2 :
          SparrowArray_arrow_c_array(self, requested_schema, fail)
    \/ \E self \in SparrowStreams, requested_schema \in RequestedSchemas, fail \in 0..2 :
          sparrow_stream_to_stream(self, requested_schema, fail)
    \/ \E s \in SparrowStreams, item \in Items : push(s, item)
    \/ \E c \in CapIds : DestroyCapsule(c)
    \/ \E v \in ArrayIds : DestroyArray(v)

SpecEntryPoints == Init /\ [][NextEntryPoints]_vars

\* The pairs a caller passes to a constructor: the two capsules of one
\* export in either order or one of them twice, two capsules of the host,
\* a capsule with something that is not one, or no capsule at all.
Tuples ==
    {t \in Handles \X Handles :
        IF t[1] = NULL THEN t[2] = NULL
        ELSE t[2] = NULL \/ snap[t[1]].pair = snap[t[2]].pair}

\* The constructors of SparrowArray objects, fed with the capsules of an
\* export or with anything else the host holds.
NextConstructors ==
    \/ \E arr \in ArrayIds : export_array_to_capsules(arr, 0)
    \/ \E t \in Tuples, fail \in 0..1 :
          create_sparrow_array_object_from_capsules(t[1], t[2], fail)
    \/ SparrowArray_new(FALSE, NULL, NULL, FALSE, 0)
    \/ \E t \in Tuples, last \in BOOLEAN, fail \in 0..1 :
          SparrowArray_new(TRUE, t[1], t[2], last, fail)
    \/ \E c \in CapIds : DestroyCapsule(c)
    \/ \E v \in ArrayIds : DestroyArray(v)

SpecConstructors == Init /\ [][NextConstructors]_vars

\* An array whose schema is exported on its own, before or after the array
\* itself is exported or destroyed; the host reads an array back from the
\* capsule of the schema's copy and an array capsule.
NextSchemaExport ==
    \/ \E arr \in ArrayIds, fail \in 0..1 : export_schema_to_capsule(arr, fail)
    \/ \E arr \in ArrayIds : export_array_to_capsules(arr, 0)
    \/ \E s \in Handles, a \in Handles :
          /\ s # NULL /\ a # NULL
          /\ heap[capsules[s].pointer].obj.private_data \in CopyBufs
          /\ capsules[a].name = arrow_array_str
          /\ import_array_from_capsules(s, a)
    \/ \E c \in CapIds : DestroyCapsule(c)
    \/ \E v \in ArrayIds : DestroyArray(v)

SpecSchemaExport == Init /\ [][NextSchemaExport]_vars

\* Variant: the copy shares the structs of the wrapped array.
CopyArray_aliased(a, schema_buf, array_buf) == a

\* sparrow::array arr_copy = m_array: a deep copy, each struct in a buffer
\* set of its own.
CopyArray(a, schema_buf, array_buf) ==
    [a EXCEPT !.schema.release = schema_buf, !.schema.private_data = schema_buf,
              !.array.release = array_buf, !.array.private_data = array_buf]

\* SparrowArray::export_to_capsules() const: m_array is slot `self`; the
\* local copy is exported and is left moved-from when the call returns.
SparrowArray_export_to_capsules(self, fail) ==
    /\ Owns(arrays[self])
    /\ Cardinality(FreeCopyBufs(heap)) >= 2
    /\ Room(2)
    /\ LET schema_buf == NextCopyBuf(heap)
           array_buf == CHOOSE b \in FreeCopyBufs(heap) \ {schema_buf} :
                            \A d \in FreeCopyBufs(heap) \ {schema_buf} : b <= d
           arr_copy == CopyArray(arrays[self], schema_buf, array_buf)
       IN /\ export_capsules("SparrowArray_export_to_capsules", self, arr_copy,
                             Values(arrays[self]), fail, NoEntry)
          /\ buffers' = [buffers EXCEPT ![array_buf] = Values(arrays[self])]
    /\ UNCHANGED arrays

\* A SparrowArray exported repeatedly; the host reads arrays back from the
\* pairs and drops capsules and arrays in any order.
NextSparrowArray ==
    \/ \E self \in InitialArrays, fail \in 0..2 : SparrowArray_export_to_capsules(self, fail)
    \/ \E s \in Handles, a \in Handles :
          /\ s # NULL /\ a # NULL
          /\ capsules[s].destructor # "host" /\ capsules[a].destructor # "host"
          /\ import_array_from_capsules(s, a)
    \/ \E c \in CapIds : DestroyCapsule(c)
    \/ \E v \in ArrayIds : DestroyArray(v)

SpecSparrowArray == Init /\ [][NextSparrowArray]_vars

\* ------------------------------------- sparrow::pycapsule, the earlier variant
\* What the destructor of the schema capsule can do when it runs on a struct
\* that was deleted before: PyCapsule_GetPointer still returns the pointer
\* and `schema->release` is read from freed memory.  The run crashes, or
\* reads the old callback, calls it and deletes the struct again, or reads
\* null and deletes the struct again.
DestructorOnFreed(W, capsule) ==
    LET p == W.capsules[capsule].pointer
        gone == [W EXCEPT !.capsules[capsule].st = "destroyed"]
    IN {[crash |-> TRUE, world |-> W],
        [crash |-> FALSE,
         world |-> Delete(IF W.heap[p].obj.release # NULL THEN Release(gone, p, TRUE) ELSE gone, p)],
        [crash |-> FALSE, world |-> Delete(gone, p)]}

\* if (!schema_capsule) { delete schema_ptr; delete array_ptr; ... }
EarlierSchemaCapsuleFailed(W, schema_ptr, array_ptr) ==
    Delete(Delete(W, schema_ptr), array_ptr)

\* if (!array_capsule) { delete schema_ptr; delete array_ptr;
\*                       Py_DECREF(schema_capsule); ... }
EarlierArrayCapsuleFailed(W, schema_capsule, schema_ptr, array_ptr) ==
    DestructorOnFreed(Delete(Delete(W, schema_ptr), array_ptr), schema_capsule)

\* sparrow::pycapsule::export_array_to_capsules(arr), the earlier variant;
\* `fail` as in export_capsules.
earlier_export_array_to_capsules(arr, fail) ==
    /\ Owns(arrays[arr])
    /\ Room(2)
    /\ LET arrow_array == arrays[arr].array
           arrow_schema == arrays[arr].schema
           schema_ptr == NextPtr(heap)
           W1 == New(World, schema_ptr, arrow_schema)
           array_ptr == NextPtr(W1.heap)
           W2 == New(W1, array_ptr, arrow_array)
           schema_capsule == IF fail = 1 THEN NULL ELSE NextCapsule(W2.capsules)
           W3 == IF schema_capsule = NULL THEN W2
                 ELSE PyCapsule_New(W2, schema_capsule, schema_ptr, arrow_schema_str,
                                    "release_arrow_schema_pycapsule")
           array_capsule == IF fail # 0 THEN NULL ELSE NextCapsule(W3.capsules)
           W4 == IF array_capsule = NULL THEN W3
                 ELSE PyCapsule_New(W3, array_capsule, array_ptr, arrow_array_str,
                                    "release_arrow_array_pycapsule")
           call == [op |-> "earlier_export", arr |-> arr,
                    schema_capsule |-> schema_capsule, array_capsule |-> array_capsule,
                    schema |-> schema_ptr, array |-> array_ptr,
                    schema_release |-> arrow_schema.release,
                    array_release |-> arrow_array.release, result |-> NoValue,
                    entry |-> NoEntry]
           before == [returned |-> TRUE, pair |-> schema_capsule,
                      size |-> Size(arrays[arr]), null_count |-> NullCount(arrays[arr]),
                      values |-> Values(arrays[arr]), taken |-> 0]
       IN /\ arrays' = [arrays EXCEPT ![arr] = MovedFrom(arrays[arr])]
          /\ moves' = CountExport(moves, arrow_schema.release, arrow_array.release)
          /\ IF schema_capsule = NULL
             THEN /\ Commit(EarlierSchemaCapsuleFailed(W2, schema_ptr, array_ptr))
                  /\ ret' = call @@ [first |-> NULL, second |-> NULL, err |-> TRUE,
                                     crash |-> FALSE]
                  /\ snap' = snap
             ELSE IF array_capsule = NULL
             THEN \E out \in EarlierArrayCapsuleFailed(W3, schema_capsule, schema_ptr,
                                                       array_ptr) :
                      /\ Commit(out.world)
                      /\ ret' = call @@ [first |-> NULL, second |-> NULL, err |-> TRUE,
                                         crash |-> out.crash]
                      /\ snap' = snap
             ELSE /\ Commit(W4)
                  /\ ret' = call @@ [first |-> schema_capsule, second |-> array_capsule,
                                     err |-> FALSE, crash |-> FALSE]
                  /\ snap' = [snap EXCEPT ![schema_capsule] = before,
                                          ![array_capsule] = before]
    /\ UNCHANGED buffers
    /\ UNCHANGED svars

\* The earlier variant in use: arrays exported, read back and dropped.
NextEarlier ==
    \/ \E arr \in ArrayIds, fail \in 0..2 : earlier_export_array_to_capsules(arr, fail)
    \/ \E s \in Handles, a \in Handles : import_array_from_capsules(s, a)
    \/ \E c \in CapIds : DestroyCapsule(c)
    \/ \E v \in ArrayIds : DestroyArray(v)

SpecEarlier == Init /\ [][NextEarlier]_vars

\* ------------------------------------------ SparrowArrayObject (C-API type)
\* Array slots that are the `arr` of a live object.
Wrapped(objs) == {objs[o].arr : o \in {x \in ObjIds : objs[x].st = "live"}}

\* PyObject_New(SparrowArrayObject, type): the header is initialised, the
\* fields after it are not.
PyObject_New == [st |-> "live", arr |-> Uninitialized]

\* The values `self->arr` can yield when it is read: the value written, or,
\* when nothing was written, whatever the memory holds: null, the address of
\* an array that exists, or an address of nothing.
ReadArr(as, obj) ==
    IF obj.arr # Uninitialized THEN {obj.arr}
    ELSE {NULL, Wild} \cup {v \in ArrayIds : as[v].st = "live"}

\* `delete p` on a sparrow::array*: nothing for null, the destructor for an
\* array, a crash for an address of nothing.
DeleteArr(as, rel, p) ==
    IF p = NULL THEN [arrays |-> as, released |-> rel, crash |-> FALSE]
    ELSE IF p = Wild THEN [arrays |-> as, released |-> rel, crash |-> TRUE]
    ELSE [arrays |-> [as EXCEPT ![p] = DestroyedValue],
          released |-> ReleaseOwned(ReleaseOwned(rel, as[p].schema), as[p].array),
          crash |-> FALSE]

\* What `ret` records of a run of SparrowArray_dealloc: the field as it was
\* stored, the pointer that was deleted, and whether the run crashed.
NoDealloc == [ran |-> FALSE, field |-> NULL, deleted |-> NULL, crash |-> FALSE]

\* SparrowArray_dealloc(self) where self->arr is read as p.
SparrowArray_dealloc(self, p, call) ==
    LET out == DeleteArr(arrays, released, p)
    IN /\ arrays' = out.arrays
       /\ released' = out.released
       /\ objects' = [objects EXCEPT ![self] = [st |-> "freed", arr |-> NULL]]
       /\ ret' = call @@ [dealloc |-> [ran |-> TRUE, field |-> objects[self].arr,
                                        deleted |-> p, crash |-> out.crash]]

\* create_sparrow_array_object(std::move(arr)) on the caller's array in slot
\* arr.  fail = 1: get_sparrow_array_type() returns null; 2: PyObject_New
\* returns null; 3: `new sparrow::array` throws std::bad_alloc, before the
\* array is moved from; 0: the object takes the array.
create_sparrow_array_object_call(arr, fail) ==
    /\ Owns(arrays[arr])
    /\ arr \notin Wrapped(objects)
    /\ \E o \in ObjIds : objects[o].st = "none"
    /\ LET obj == CHOOSE o \in ObjIds :
                      objects[o].st = "none" /\ \A x \in ObjIds : x < o => objects[x].st # "none"
           call == [NoRet EXCEPT !.op = "create_sparrow_array_object", !.arr = arr,
                                 !.err = (fail # 0)]
                       @@ [self |-> IF fail \in {1, 2} THEN NULL ELSE obj,
                           object |-> IF fail = 0 THEN obj ELSE NULL]
       IN IF fail \in {1, 2}
          THEN /\ ret' = call @@ [dealloc |-> NoDealloc]
               /\ UNCHANGED <<arrays, released, objects>>
          ELSE IF fail = 3
          THEN \E p \in ReadArr(arrays, PyObject_New) :
                   LET out == DeleteArr(arrays, released, p)
                   IN /\ arrays' = out.arrays
                      /\ released' = out.released
                      /\ objects' = [objects EXCEPT ![obj] = [st |-> "freed", arr |-> NULL]]
                      /\ ret' = call @@ [dealloc |-> [ran |-> TRUE,
                                                       field |-> PyObject_New.arr,
                                                       deleted |-> p, crash |-> out.crash]]
          ELSE /\ objects' = [objects EXCEPT ![obj] = [PyObject_New EXCEPT !.arr = arr]]
               /\ ret' = call @@ [dealloc |-> NoDealloc]
               /\ UNCHANGED <<arrays, released>>
    /\ UNCHANGED <<heap, capsules, buffers, capReleased, deleted, snap, moves>>
    /\ UNCHANGED <<proxies, stream_data, held>>

\* The host drops the last reference to an object: tp_dealloc runs.
DestroyObject(self) ==
    /\ objects[self].st = "live"
    /\ \E p \in ReadArr(arrays, objects[self]) :
          SparrowArray_dealloc(self, p,
              [NoRet EXCEPT !.op = "SparrowArray_dealloc", !.arr = objects[self].arr]
                  @@ [self |-> self, object |-> NULL])
    /\ UNCHANGED <<heap, capsules, buffers, capReleased, deleted, snap, moves>>
    /\ UNCHANGED <<proxies, stream_data, held>>

\* Objects made from the arrays a caller holds, which it got at the start or
\* read back from capsules; the caller drops the arrays it still has, the
\* host the objects and capsules.
NextObjects ==
    \/ \E arr \in ArrayIds, fail \in 0..3 : create_sparrow_array_object_call(arr, fail)
    \/ \E self \in ObjIds : DestroyObject(self)
    \/ \E arr \in ArrayIds \ Wrapped(objects) : export_array_to_capsules(arr, 0)
    \/ \E s \in Handles, a \in Handles :
          /\ s # NULL /\ a # NULL /\ snap[s].pair = snap[a].pair
          /\ import_array_from_capsules(s, a)
    \/ \E c \in CapIds : DestroyCapsule(c)
    \/ \E v \in ArrayIds \ Wrapped(objects) : DestroyArray(v)

SpecObjects == Init /\ [][NextObjects]_vars

\* The same program over every content of the native arrays.
InitRoundTrip == \E content \in [InitialArrays -> Contents] : InitWith(content)

SpecRoundTrip == InitRoundTrip /\ [][Next]_vars

\* ================================================================= claims
\* Holders of a live release pointer to buffer set b: array values, and heap
\* structs (those a capsule owns).
ArrayHolders(b) ==
    {v \in ArrayIds : /\ arrays[v].st = "live"
                      /\ (arrays[v].schema.release = b \/ arrays[v].array.release = b)}
CellHolders(b) == {p \in Ptrs : heap[p].st = "live" /\ heap[p].obj.release = b}
ProxyHolders(b) == {p \in ProxyIds : proxies[p].st = "live" /\ proxies[p].stream.release = b}
Holders(b) ==
    Cardinality(ArrayHolders(b)) + Cardinality(CellHolders(b)) + Cardinality(ProxyHolders(b))

\* The buffer set exists: those of arrays and host capsules from the start,
\* the private state of a stream once it has been filled.
Allocated(b) ==
    /\ b \in StreamBufs => stream_data[b].alloc
    /\ b \in CopyBufs => b \notin FreeCopyBufs(heap)

\* Capsules whose struct describes buffer set b, array values that point to it.
CapsulesOf(b) ==
    {c \in CapIds : capsules[c].st # "none" /\ heap[capsules[c].pointer].obj.private_data = b}
ArraysOf(b) ==
    {v \in ArrayIds : /\ arrays[v].st = "live"
                      /\ (arrays[v].schema.private_data = b \/ arrays[v].array.private_data = b)}

\* b was exported once, imported once, and the capsule and the imported array
\* have been destroyed.
SuccessPathDone(b) ==
    /\ moves[b].exported = 1
    /\ moves[b].imported = 1
    /\ \A c \in CapsulesOf(b) : capsules[c].st = "destroyed"
    /\ ArraysOf(b) = {}

\* C1: after export, import, and the destruction of the capsules and of the
\* imported array in any order, the release callback of each descriptor has
\* run exactly once, and never in a capsule destructor.
C1_ExactlyOnceOnSuccessPath ==
    \A b \in OwnBufs : SuccessPathDone(b) => released[b] = 1 /\ capReleased[b] = 0

C1_Witness ==
    /\ SuccessPathDone(SchBuf(1))
    /\ SuccessPathDone(ArrBuf(1))
    /\ released[SchBuf(1)] = 1
    /\ released[ArrBuf(1)] = 1

\* C2: at most one holder has a live release pointer to a buffer set, and
\* exactly one while the buffer set is unreleased.
C2_SingleOwner ==
    \A b \in Bufs :
        Allocated(b) => Holders(b) <= 1 /\ (released[b] = 0 => Holders(b) = 1)

\* One buffer set held by an imported array while another is held by a capsule.
C2_Witness ==
    \E b1 \in OwnBufs, b2 \in OwnBufs :
        /\ moves[b1].imported >= 1 /\ ArrayHolders(b1) # {}
        /\ moves[b2].exported >= 1 /\ CellHolders(b2) # {}

\* C3: when the array capsule cannot be created, the schema struct is released
\* once, by the destructor of the schema capsule, the array struct is released
\* once, both heap copies are freed once, no capsule is left and the call
\* returns (NULL, NULL).
C3_RollbackArrayCapsuleFailed ==
    (ret.op = "export" /\ ret.schema_capsule # NULL /\ ret.array_capsule = NULL) =>
        /\ released[ret.schema_release] = 1
        /\ capReleased[ret.schema_release] = 1
        /\ released[ret.array_release] = 1
        /\ capReleased[ret.array_release] = 0
        /\ deleted[ret.schema] = 1 /\ heap[ret.schema].st = "freed"
        /\ deleted[ret.array] = 1 /\ heap[ret.array].st = "freed"
        /\ capsules[ret.schema_capsule].st = "destroyed"
        /\ \A c \in CapIds : capsules[c].st = "live" =>
                capsules[c].pointer \notin {ret.schema, ret.array}
        /\ ret.first = NULL /\ ret.second = NULL /\ ret.err

C3_Witness ==
    /\ ret.op = "export" /\ ret.schema_capsule # NULL /\ ret.array_capsule = NULL
    /\ released[ret.schema_release] = 1

\* C4: when the schema capsule cannot be created, both copies are released
\* once and freed once, no capsule is created and the call returns (NULL, NULL).
C4_RollbackSchemaCapsuleFailed ==
    (ret.op = "export" /\ ret.schema_capsule = NULL) =>
        /\ released[ret.schema_release] = 1
        /\ capReleased[ret.schema_release] = 0
        /\ released[ret.array_release] = 1
        /\ capReleased[ret.array_release] = 0
        /\ deleted[ret.schema] = 1 /\ heap[ret.schema].st = "freed"
        /\ deleted[ret.array] = 1 /\ heap[ret.array].st = "freed"
        /\ ret.array_capsule = NULL
        /\ \A c \in CapIds : capsules[c].st # "none" =>
                capsules[c].pointer \notin {ret.schema, ret.array}
        /\ ret.first = NULL /\ ret.second = NULL /\ ret.err

C4_Witness ==
    /\ ret.op = "export" /\ ret.schema_capsule = NULL
    /\ released[ret.array_release] = 1

\* C5: a capsule returned by an export and destroyed without having been
\* imported had its struct released once, by its destructor, and freed once.
C5_NeverConsumed ==
    \A c \in CapIds :
        (snap[c].returned /\ snap[c].taken = 0 /\ capsules[c].st = "destroyed") =>
            LET p == capsules[c].pointer
                b == heap[p].obj.private_data
            IN /\ released[b] = 1
               /\ capReleased[b] = 1
               /\ deleted[p] = 1 /\ heap[p].st = "freed"

\* Both capsules of one export destroyed, neither ever imported.
C5_Witness ==
    \E c \in CapIds, d \in CapIds :
        /\ c # d
        /\ snap[c].returned /\ snap[d].returned /\ snap[c].pair = snap[d].pair
        /\ snap[c].taken = 0 /\ snap[d].taken = 0
        /\ capsules[c].st = "destroyed" /\ capsules[d].st = "destroyed"

\* C6: when a pair of capsules is imported twice, each buffer set is never
\* released twice nor held by two owners, it has been released exactly once
\* when the capsules and the imported arrays are gone, and the array a later
\* import builds holds no release pointer the earlier import already took.
C6_DoubleImport ==
    /\ \A c \in CapIds :
          snap[c].taken >= 2 =>
              LET b == heap[capsules[c].pointer].obj.private_data
              IN /\ released[b] <= 1
                 /\ Holders(b) <= 1
                 /\ ((\A d \in CapsulesOf(b) : capsules[d].st = "destroyed")
                        /\ ArraysOf(b) = {}) => released[b] = 1
    /\ \A v \in ArrayIds, c \in CapIds :
          (/\ ret.op = "import" /\ ~ret.err /\ ret.arr = v
           /\ capsules[c].st # "none" /\ capsules[c].pointer \in {ret.schema, ret.array}
           /\ snap[c].taken >= 2)
          => /\ arrays[v].schema.release # NULL =>
                    ArrayHolders(arrays[v].schema.release) = {v}
             /\ arrays[v].array.release # NULL =>
                    ArrayHolders(arrays[v].array.release) = {v}

\* Both capsules of an export imported twice, and everything destroyed since.
C6_Witness ==
    \E c \in CapIds, d \in CapIds :
        /\ c # d
        /\ snap[c].returned /\ snap[d].returned /\ snap[c].pair = snap[d].pair
        /\ snap[c].taken >= 2 /\ snap[d].taken >= 2
        /\ capsules[c].st = "destroyed" /\ capsules[d].st = "destroyed"
        /\ \A b \in OwnBufs : ArraysOf(b) = {} /\ released[b] = 1

\* The object is a live capsule whose name is exactly `name`.
TaggedAs(c, name) == c # NULL /\ capsules[c].st = "live" /\ capsules[c].name = name

\* C7: an import whose schema argument is not a capsule named "arrow_schema"
\* or whose array argument is not a capsule named "arrow_array" sets an error,
\* returns an empty array, runs no release callback and changes no struct.
C7_TagDiscrimination ==
    [][\A s \in Handles, a \in Handles :
          (/\ import_array_from_capsules(s, a)
           /\ ~(TaggedAs(s, arrow_schema_str) /\ TaggedAs(a, arrow_array_str)))
          => /\ ret'.op = "import" /\ ret'.err
             /\ ret'.result = EmptyValue
             /\ released' = released /\ capReleased' = capReleased
             /\ heap' = heap /\ capsules' = capsules /\ arrays' = arrays]_vars

\* The schema capsule resolved and only the array capsule failed.
C7_Witness ==
    /\ ret.op = "import" /\ ret.err
    /\ ret.schema # NULL /\ ret.array = NULL
    /\ \E b \in OwnBufs : heap[ret.schema].obj.release = b

\* C8: after a successful import both capsules resolve under their names to
\* the pointers they resolved to before, and the release field of both
\* structs is NULL.
C8_ImportPostCondition ==
    [][\A s \in Handles, a \in Handles :
          (import_array_from_capsules(s, a) /\ ~ret'.err)
          => /\ PyCapsule_GetPointer(capsules, s, arrow_schema_str) # NULL
             /\ PyCapsule_GetPointer(capsules', s, arrow_schema_str)
                    = PyCapsule_GetPointer(capsules, s, arrow_schema_str)
             /\ PyCapsule_GetPointer(capsules, a, arrow_array_str) # NULL
             /\ PyCapsule_GetPointer(capsules', a, arrow_array_str)
                    = PyCapsule_GetPointer(capsules, a, arrow_array_str)
             /\ heap'[PyCapsule_GetPointer(capsules', s, arrow_schema_str)].obj.release = NULL
             /\ heap'[PyCapsule_GetPointer(capsules', a, arrow_array_str)].obj.release = NULL
             /\ heap'[PyCapsule_GetPointer(capsules', s, arrow_schema_str)].st = "live"
             /\ heap'[PyCapsule_GetPointer(capsules', a, arrow_array_str)].st = "live"]_vars

\* An import that took two live release pointers has just returned.
C8_Witness ==
    /\ ret.op = "import" /\ ~ret.err
    /\ ret.schema_release # NULL /\ ret.array_release # NULL
    /\ heap[ret.schema].obj.release = NULL /\ heap[ret.array].obj.release = NULL

\* C9: after a successful export the first capsule is named "arrow_schema",
\* the second "arrow_array", the structs they wrap have a non-NULL release,
\* and the source array holds no release pointer.
C9_ExportPostCondition ==
    (ret.op = "export" /\ ~ret.err) =>
        /\ ret.first # NULL /\ ret.second # NULL /\ ret.first # ret.second
        /\ capsules[ret.first].st = "live" /\ capsules[ret.first].name = "arrow_schema"
        /\ capsules[ret.second].st = "live" /\ capsules[ret.second].name = "arrow_array"
        /\ heap[capsules[ret.first].pointer].st = "live"
        /\ heap[capsules[ret.first].pointer].obj.kind = "schema"
        /\ heap[capsules[ret.first].pointer].obj.release # NULL
        /\ heap[capsules[ret.second].pointer].st = "live"
        /\ heap[capsules[ret.second].pointer].obj.kind = "array"
        /\ heap[capsules[ret.second].pointer].obj.release # NULL
        /\ arrays[ret.arr].schema.release = NULL
        /\ arrays[ret.arr].array.release = NULL
        /\ ~Owns(arrays[ret.arr])

C9_Witness ==
    /\ ret.op = "export" /\ ~ret.err
    /\ capsules[ret.first].st = "live" /\ capsules[ret.second].st = "live"
    /\ arrays[ret.arr].st = "live"

\* The capsule that wraps the struct at address p.
CapsuleAt(p) == CHOOSE c \in CapIds : capsules[c].st # "none" /\ capsules[c].pointer = p

\* The last call was the first import of the two capsules one export returned.
ImportedExportedPair ==
    /\ ret.op = "import" /\ ~ret.err
    /\ LET s == CapsuleAt(ret.schema)
           a == CapsuleAt(ret.array)
       IN /\ snap[s].returned /\ snap[a].returned
          /\ snap[s].pair = snap[a].pair
          /\ snap[s].taken = 1 /\ snap[a].taken = 1

\* C10: the array an import builds from the capsules of an export has the
\* length, the null count and the elements the source had before the export.
C10_RoundTrip ==
    ImportedExportedPair =>
        LET before == snap[CapsuleAt(ret.schema)]
        IN /\ Size(arrays[ret.arr]) = before.size
           /\ NullCount(arrays[ret.arr]) = before.null_count
           /\ Values(arrays[ret.arr]) = before.values
           /\ Len(Values(arrays[ret.arr])) = Size(arrays[ret.arr])

\* A round trip of an array that holds a null and a value.
C10_Witness ==
    /\ ImportedExportedPair
    /\ Size(arrays[ret.arr]) = MaxLen
    /\ NullCount(arrays[ret.arr]) = 1

\* ------------------------------------------------------------ SparrowStream
\* The last call was export_to_capsule on a stream that was Active when the
\* call began.
ExportedWhileActive == ret.op = "export_to_capsule" /\ ~ret.was_consumed

\* C11: a SparrowStream becomes Consumed only when export_to_capsule
\* succeeds: after a call on an Active stream that returned null, the stream
\* is still Active (is_consumed() is false).
C11_ConsumedOnlyOnSuccess ==
    (ExportedWhileActive /\ ret.capsule = NULL) => ~is_consumed(ret.stream)

\* C12: once export_to_capsule has returned a capsule for a SparrowStream,
\* every later export_to_capsule on that stream returns null with a Python
\* error set, creates no capsule and allocates nothing, and leaves the heap
\* struct of the first capsule, the stream's private state and the release
\* counts as they were.
C12_AtMostOneExport ==
    [][(ret'.op = "export_to_capsule" /\ proxies[ret'.stream].exported # NULL)
          => /\ ret'.capsule = NULL
             /\ ret'.err
             /\ capsules' = capsules
             /\ heap' = heap
             /\ stream_data' = stream_data
             /\ released' = released
             /\ deleted' = deleted
             /\ proxies' = proxies]_vars

\* A second export was refused while the first capsule is alive and still
\* owns its stream.
C12_Witness ==
    /\ ret.op = "export_to_capsule" /\ ret.was_consumed /\ ret.err
    /\ LET first == proxies[ret.stream].exported
       IN /\ first # NULL
          /\ capsules[first].st = "live"
          /\ heap[capsules[first].pointer].obj.release # NULL

\* C13: on a Consumed SparrowStream, push and pop throw a runtime_error and
\* change neither the stream (its pending arrays, its flag, its struct) nor
\* anything on the heap; the array given to a rejected push stays with the
\* caller.
C13_ConsumedRejects ==
    [][(ret'.op \in {"push", "pop"} /\ proxies[ret'.stream].m_consumed)
          => /\ ret'.thrown = "runtime_error"
             /\ ~ret'.has_value
             /\ proxies' = proxies
             /\ stream_data' = stream_data
             /\ held' = held
             /\ heap' = heap
             /\ capsules' = capsules
             /\ released' = released]_vars

\* A push was rejected on a stream that had been exported with arrays in it,
\* and the caller still holds the array it tried to push.
C13_Witness ==
    /\ ret.op = "push" /\ ret.thrown = "runtime_error"
    /\ proxies[ret.stream].exported # NULL
    /\ proxies[ret.stream].pushed # <<>>
    /\ held[ret.item] = "caller"

\* C14: Consumed is irreversible: once is_consumed() is true for a
\* SparrowStream it is true after every later step (push, pop,
\* export_to_capsule, an import from the exported capsule, the capsule's
\* destruction).
C14_ConsumedIrreversible ==
    [][\A s \in SparrowStreams : is_consumed(s) => is_consumed(s)']_vars

\* The exported capsule has been destroyed, calls on the stream have been
\* rejected since, and the stream is still Consumed.
C14_Witness ==
    \E s \in SparrowStreams :
        /\ is_consumed(s)
        /\ proxies[s].exported # NULL
        /\ capsules[proxies[s].exported].st = "destroyed"
        /\ ret.op \in {"push", "pop", "export_to_capsule"}
        /\ ret.stream = s /\ ret.was_consumed

C16_Fifo ==
    \A s \in SparrowStreams :
        ~is_consumed(s) =>
            LET pushed == proxies[s].pushed
                popped == proxies[s].popped
                pending == stream_data[proxies[s].stream.private_data].arrays
            IN /\ popped \o pending = pushed
               /\ (ret.op = "pop" /\ ret.stream = s /\ ret.has_value)
                     => /\ popped # <<>>
                        /\ ret.result = <<pushed[Len(popped)]>>
               /\ (ret.op = "pop" /\ ret.stream = s /\ ~ret.has_value)
                     => popped = pushed

\* At least two arrays were pushed, every one was popped, in between or
\* after, and the next pop returned the empty option.
C16_Witness ==
    /\ ret.op = "pop" /\ ~ret.has_value /\ ret.thrown = "none"
    /\ ~is_consumed(ret.stream)
    /\ Len(proxies[ret.stream].pushed) >= 2
    /\ proxies[ret.stream].popped = proxies[ret.stream].pushed

\* ------------------------------------------------------------ stream capsules
\* Capsule c was returned by an export and has been read by one import.
ReadOnce(c) == snap[c].returned /\ snap[c].taken = 1

\* C17: stream round trip.  The first import_arrays_from_stream_capsule of
\* a capsule an export returned gives back the arrays that were exported, in
\* their order; a proxy that import_stream_proxy_from_capsule took from such
\* a capsule pops these arrays in that order and nothing else; and what
\* export_to_capsule exports is what was pushed into the SparrowStream.
C17_StreamRoundTrip ==
    /\ \A c \in CapIds :
          (/\ ret.op = "import_arrays_from_stream_capsule"
           /\ ret.capsule = c /\ ReadOnce(c))
              => /\ ret.result = snap[c].values
                 /\ Len(ret.result) = snap[c].size
    /\ \A p \in ProxyIds :
          (/\ proxies[p].st = "live" /\ ~proxies[p].wrapped
           /\ proxies[p].source # NULL /\ ReadOnce(proxies[p].source))
              => LET exported == snap[proxies[p].source].values
                     pending == stream_data[proxies[p].stream.private_data].arrays
                 IN /\ proxies[p].popped \o pending = exported
                    /\ proxies[p].eos => proxies[p].popped = exported
    /\ \A s \in SparrowStreams :
          proxies[s].exported # NULL
              => snap[proxies[s].exported].values = proxies[s].pushed

\* Two arrays or more were pushed into a SparrowStream and pulled, to the
\* end, from the proxy imported from its capsule, and an import from the
\* capsule of export_arrays_to_stream_capsule has returned its arrays.
C17_Witness ==
    /\ ret.op = "import_arrays_from_stream_capsule"
    /\ ret.result # <<>>
    /\ ReadOnce(ret.capsule)
    /\ \E s \in SparrowStreams, p \in ProxyIds :
          /\ proxies[s].exported # NULL
          /\ proxies[p].source = proxies[s].exported
          /\ ReadOnce(proxies[p].source)
          /\ proxies[p].eos
          /\ Len(proxies[p].popped) >= 2

\* C18: export_arrays_to_stream_capsule on an empty vector fails: it returns
\* null with a Python error set, allocates no stream, no heap struct and no
\* capsule, releases nothing and takes no array from the caller.
C18_EmptyStreamRejected ==
    [][(ret'.op = "export_arrays_to_stream_capsule" /\ ret'.result = <<>>)
          => /\ ret'.capsule = NULL
             /\ ret'.err
             /\ ret'.heap_stream = NULL
             /\ stream_data' = stream_data
             /\ heap' = heap
             /\ capsules' = capsules
             /\ released' = released
             /\ deleted' = deleted
             /\ held' = held]_vars

\* An export of the empty vector was refused although nothing else would
\* have made it fail.
C18_Witness ==
    /\ ret.op = "export_arrays_to_stream_capsule"
    /\ ret.result = <<>> /\ ret.fail = 0
    /\ ret.err /\ ret.capsule = NULL
    /\ FreeStreamBufs(stream_data) # {}

\* C19: export_to_capsule on an Active SparrowStream into which nothing was
\* ever pushed succeeds when the host can make the capsule: it returns a
\* live capsule named "arrow_array_stream" that owns the (empty) stream, no
\* error is set, and the stream is Consumed.
C19_ExportEmptyStream ==
    (ExportedWhileActive /\ ret.fail = 0 /\ proxies[ret.stream].pushed = <<>>)
        => /\ ret.capsule # NULL
           /\ ~ret.err
           /\ capsules[ret.capsule].st = "live"
           /\ capsules[ret.capsule].name = arrow_array_stream_str
           /\ capsules[ret.capsule].pointer = ret.heap_stream
           /\ heap[ret.heap_stream].obj.release # NULL
           /\ snap[ret.capsule].values = <<>>
           /\ is_consumed(ret.stream)

\* An empty stream has just been exported, after a pop had found it empty.
C19_Witness ==
    /\ ExportedWhileActive /\ ret.capsule # NULL
    /\ proxies[ret.stream].pushed = <<>>
    /\ proxies[ret.stream].eos
    /\ is_consumed(ret.stream)

\* The private state that the struct in stream capsule c describes.
StreamOf(c) == heap[capsules[c].pointer].obj.private_data

\* C20: once import_arrays_from_stream_capsule has read a stream capsule,
\* the release field of the struct the capsule points to is null: right
\* after the call, and as long as the struct lives; and no capsule
\* destructor has run the release callback of its stream.
C20_ImportedStreamNullRelease ==
    /\ (ret.op = "import_arrays_from_stream_capsule" /\ ret.capsule # NULL)
          => heap[ret.heap_stream].obj.release = NULL
    /\ \A c \in CapIds :
          (capsules[c].st # "none" /\ snap[c].taken >= 1)
              => /\ heap[capsules[c].pointer].st = "live"
                    => heap[capsules[c].pointer].obj.release = NULL
                 /\ capReleased[StreamOf(c)] = 0

\* A capsule made by export_arrays_to_stream_capsule was read by
\* import_arrays_from_stream_capsule (no proxy was taken from it) and then
\* destroyed: its struct was deleted and no release callback ran.
C20_Witness ==
    \E c \in CapIds :
        /\ capsules[c].st = "destroyed"
        /\ capsules[c].destructor = "release_arrow_array_stream_pycapsule"
        /\ snap[c].taken >= 1
        /\ snap[c].values # <<>>
        /\ \A p \in ProxyIds : proxies[p].source # c
        /\ deleted[capsules[c].pointer] = 1
        /\ released[StreamOf(c)] = 0

\* C25: a stream import whose argument is not a capsule named
\* "arrow_array_stream" sets a Python error and returns nothing (an empty
\* vector, an empty proxy); it calls get_next on no stream, runs no release
\* callback and changes no struct, capsule, stream or proxy.
C25_StreamImportBadHandle ==
    [][\A c \in Handles :
          (/\ ~TaggedAs(c, arrow_array_stream_str)
           /\ \/ import_arrays_from_stream_capsule(c)
              \/ import_stream_proxy_from_capsule(c))
          => /\ ret'.err
             /\ ret'.result = <<>> /\ ret'.stream = NULL
             /\ ret'.get_next = 0
             /\ released' = released /\ capReleased' = capReleased
             /\ heap' = heap /\ capsules' = capsules
             /\ stream_data' = stream_data /\ proxies' = proxies
             /\ held' = held]_vars

\* import_stream_proxy_from_capsule was refused a live capsule with another
\* name, while a stream capsule with arrays in it existed.
C25_Witness ==
    /\ ret.op = "import_stream_proxy_from_capsule" /\ ret.err
    /\ ret.heap_stream = NULL
    /\ \E c \in CapIds : capsules[c].st = "live" /\ capsules[c].name = "wrong_name"
    /\ \E c \in CapIds : /\ TaggedAs(c, arrow_array_stream_str)
                         /\ snap[c].values # <<>> /\ snap[c].taken = 0

\* ------------------------------------------------------- stream ownership
\* Capsule c was made by a stream export of this library.
ExportedStreamCapsule(c) ==
    /\ capsules[c].st # "none"
    /\ capsules[c].destructor = "release_arrow_array_stream_pycapsule"
    /\ snap[c].returned

\* Capsule c was read by import_arrays_from_stream_capsule only.
ReadByImportArraysOnly(c) ==
    snap[c].taken >= 1 /\ \A p \in ProxyIds : proxies[p].source # c

\* C21: for a stream capsule made by an export, once
\* import_arrays_from_stream_capsule has read it and the capsule and the
\* imported arrays have been destroyed, the release callback of the stream
\* (which frees its private state) has run exactly once.
C21_StreamReleasedExactlyOnce ==
    \A c \in CapIds :
        (/\ ExportedStreamCapsule(c)
         /\ ReadByImportArraysOnly(c)
         /\ capsules[c].st = "destroyed"
         /\ \A k \in DOMAIN snap[c].values : held[snap[c].values[k]] = "destroyed")
            => released[StreamOf(c)] = 1

\* The last call invoked get_next on a stream.
CalledGetNext ==
    /\ ret.op \in {"import_arrays_from_stream_capsule", "pop", "proxy_pop"}
    /\ ret.get_next > 0

\* C22: no operation of the library calls get_next on a stream struct
\* whose release has run or has been nulled by an import: whenever get_next
\* was called, the release field of the struct it was called on was not null
\* when the call began.
C22_NoGetNextAfterRelease == CalledGetNext => ret.stream_release # NULL

\* C23: end of stream is sticky: once a pop on a SparrowStream or on an
\* imported proxy has returned the empty option, no later pop on it returns
\* an array.
C23_EndOfStreamSticky ==
    (ret.op \in {"pop", "proxy_pop"} /\ ret.has_value) => ~proxies[ret.stream].eos

\* Heap structs that describe the private state b.
StreamCells(b) == {p \in Ptrs : heap[p].st # "unalloc" /\ heap[p].obj.kind = "stream"
                                /\ heap[p].obj.private_data = b}

\* C28: export_stream_proxy_to_capsule hands the stream over exactly once.
\* For the proxy of a SparrowStream that export_to_capsule has passed to it:
\* when a capsule was returned, the proxy's struct has a null release, at
\* most one holder of the release exists, the capsule's heap copy has it
\* until somebody reads or destroys the capsule, and once the capsule has
\* been destroyed unread the release has run exactly once, whether or not
\* the proxy has been destroyed; when the struct was handed out and no
\* capsule could be made, the release of the heap copy has run exactly once,
\* the heap copy has been deleted once, and destroying the proxy adds nothing.
C28_StreamHandedOverOnce ==
    \A s \in SparrowStreams :
        LET b == proxies[s].stream.private_data
            c == proxies[s].exported
        IN /\ released[b] <= 1
           /\ Holders(b) <= 1
           /\ c # NULL
                => /\ proxies[s].stream.release = NULL
                   /\ (capsules[c].st = "live" /\ snap[c].taken = 0)
                         => /\ heap[capsules[c].pointer].obj.release = b
                            /\ released[b] = 0
                   /\ (capsules[c].st = "destroyed" /\ snap[c].taken = 0)
                         => /\ released[b] = 1
                            /\ deleted[capsules[c].pointer] = 1
           /\ (c = NULL /\ proxies[s].stream.release = NULL)
                => /\ released[b] = 1
                   /\ \A p \in StreamCells(b) : heap[p].st = "freed" /\ deleted[p] = 1

\* A stream with arrays in it was exported, and the capsule, unread, and the
\* SparrowStream have both been destroyed: one release.
C28_Witness ==
    \E s \in SparrowStreams :
        /\ proxies[s].exported # NULL
        /\ proxies[s].pushed # <<>>
        /\ proxies[s].st = "destroyed"
        /\ capsules[proxies[s].exported].st = "destroyed"
        /\ snap[proxies[s].exported].taken = 0
        /\ released[proxies[s].stream.private_data] = 1

\* Proxies that import_stream_proxy_from_capsule returned.
ImportedProxies == {p \in ProxyIds : proxies[p].st # "none" /\ proxies[p].source # NULL}

\* C29: import_stream_proxy_from_capsule moves the ownership of the stream to
\* the returned proxy.  After a call that returned a proxy, the struct of the
\* capsule has a null release and no capsule destructor has released or will
\* release the stream; when the capsule held a live stream at the call, the
\* returned proxy is the only holder of the release while it lives, the
\* stream has not been released before the proxy is destroyed and has been
\* released exactly once after, whether the capsule was destroyed before the
\* proxy, after it or not at all.
C29_ImportedProxyOwnsStream ==
    \A p \in ImportedProxies :
        LET c == proxies[p].source
            b == proxies[p].stream.release
        IN /\ heap[capsules[c].pointer].obj.release = NULL
           /\ capReleased[proxies[p].stream.private_data] = 0
           /\ b # NULL
                => /\ CellHolders(b) = {} /\ ArrayHolders(b) = {}
                   /\ proxies[p].st = "live" => ProxyHolders(b) = {p} /\ released[b] = 0
                   /\ proxies[p].st = "destroyed" => Holders(b) = 0 /\ released[b] = 1

\* A proxy took a live stream from a capsule; the capsule and the proxy have
\* both been destroyed.
C29_Witness ==
    \E p \in ImportedProxies :
        /\ proxies[p].stream.release # NULL
        /\ proxies[p].st = "destroyed"
        /\ capsules[proxies[p].source].st = "destroyed"
        /\ released[proxies[p].stream.release] = 1

\* Capsules of this library that are alive, and those whose struct has a
\* null release (an import has taken what it described).
OwnCapsules == {c \in CapIds : capsules[c].st = "live" /\ capsules[c].destructor # "host"}
NulledCapsules == {c \in OwnCapsules : heap[capsules[c].pointer].obj.release = NULL}

C30_ArraysConsumedOnce ==
    (ret.op = "export_arrays_to_stream_capsule" /\ ~empty(ret.result))
       => LET input == ret.result
              loop == ret.loop
          IN /\ Len(loop.steps) = Len(input)
             /\ \A k \in DOMAIN input :
                   /\ loop.steps[k].item = input[k]
                   /\ loop.steps[k].imported = input[k]
                   /\ loop.steps[k].arrow_arr = NULL
                   /\ loop.steps[k].sch_released = 1
                   /\ loop.steps[k].schema_copied <=> (k = 1)
                   /\ held[input[k]] = "moved"
                   /\ Cardinality({j \in DOMAIN loop.pending : loop.pending[j] = input[k]}) = 1
             /\ loop.pending = input
             /\ stream_data[ret.stream].arrays = input
             /\ loop.copies = 1
             /\ loop.schema_from = input[1]
             /\ loop.schema.format = ItemFormat(input[1])
             /\ loop.schema.shares = NULL
             /\ ret.fail = 0 => ~ret.err /\ ret.capsule # NULL

\* Two arrays of different data types were exported into one stream capsule.
C30_Witness ==
    /\ ret.op = "export_arrays_to_stream_capsule"
    /\ Len(ret.result) = 2
    /\ ItemFormat(ret.result[1]) # ItemFormat(ret.result[2])
    /\ ~ret.err
    /\ ret.loop.schema.format = ItemFormat(ret.result[1])

\* The constructors that build a SparrowArray object from two capsules.
Constructors == {"create_sparrow_array_object_from_capsules", "SparrowArray_new"}

\* C27: an import failure is surfaced by the object constructors.  When
\* import_array_from_capsules could not unwrap one of the capsules, the
\* constructor returns null: it returns no SparrowArray object that wraps an
\* empty array while a Python error is set.
C27_ImportFailureSurfaced ==
    (ret.op \in Constructors /\ ret.import_failed)
       => /\ ~ret.object.returned
          /\ ~(ret.object.returned /\ ret.object.empty /\ ret.err)

C36_StreamImportTerminates ==
    (/\ ret.op = "import_arrays_from_stream_capsule"
     /\ ~ret.err
     /\ ret.use_after_free = "none")
       => /\ ret.get_next = Len(ret.result) + 1
          /\ stream_data[heap[ret.heap_stream].obj.private_data].arrays = <<>>
          /\ ReadOnce(ret.capsule)
                => /\ Len(ret.result) = snap[ret.capsule].size
                   /\ ret.get_next = snap[ret.capsule].size + 1

\* The first read of a capsule exported with two arrays: three get_next calls.
C36_Witness ==
    /\ ret.op = "import_arrays_from_stream_capsule"
    /\ ~ret.err
    /\ ReadOnce(ret.capsule)
    /\ snap[ret.capsule].size = 2
    /\ Len(ret.result) = 2
    /\ ret.get_next = 3

\* C34: a SparrowStream is Active when it is constructed and stays Active
\* through every push and pop, the pops that return the empty option
\* included: is_consumed() is false at first, and a step makes it true only
\* if the step is a call of export_to_capsule on that stream.
C34_ActiveUntilExport ==
    /\ \A s \in SparrowStreams : ~is_consumed(s)
    /\ [][\A s \in SparrowStreams :
             (~is_consumed(s) /\ is_consumed(s)')
                => (ret'.op = "export_to_capsule" /\ ret'.stream = s)]_vars

\* A stream that was pushed to and popped, down to a pop that returned the
\* empty option, and pushed to again, is Active.
C34_Witness ==
    \E s \in SparrowStreams :
        /\ proxies[s].eos
        /\ proxies[s].popped # <<>>
        /\ Len(proxies[s].pushed) > Len(proxies[s].popped)
        /\ proxies[s].exported = NULL
        /\ ~is_consumed(s)

\* C31: import_array_from_stream_capsule returns the first array of the
\* stream and discards the rest.  A call that read a stream pulled every
\* array of it (one get_next more than there were arrays), returned the
\* first, which its caller now holds, destroyed each of the others, and left
\* the release of the capsule's struct null; on the first read of a capsule
\* exported with arrays these are the first exported array and the other
\* exported arrays.  A call on a stream with no array or on a bad handle
\* returned the empty array.
C31_FirstArrayOfStream ==
    ret.op = "import_array_from_stream_capsule"
       => /\ ret.err => ret.result = <<>> /\ ret.discarded = <<>>
          /\ (~ret.err /\ ret.use_after_free = "none")
                => LET n == Len(ret.result) + Len(ret.discarded)
                   IN /\ ret.get_next = n + 1
                      /\ heap[ret.heap_stream].obj.release = NULL
                      /\ stream_data[heap[ret.heap_stream].obj.private_data].arrays = <<>>
                      /\ n = 0 => ret.result = <<>>
                      /\ n >= 1 => /\ Len(ret.result) = 1
                                   /\ Len(ret.discarded) = n - 1
                                   /\ held[ret.result[1]] = "returned"
                      /\ \A k \in DOMAIN ret.discarded :
                            /\ held[ret.discarded[k]] = "destroyed"
                            /\ ret.discarded[k] # ret.result[1]
                            /\ \A j \in DOMAIN ret.discarded :
                                  ret.discarded[j] = ret.discarded[k] => j = k
                      /\ ReadOnce(ret.capsule)
                            => /\ n = snap[ret.capsule].size
                               /\ n = 0 => ret.result = <<>>
                               /\ n >= 1 => ret.result = <<snap[ret.capsule].values[1]>>
                               /\ n >= 1 => ret.discarded = Tail(snap[ret.capsule].values)

\* The first read of a capsule exported with two arrays: the first is
\* returned, the second destroyed.
C31_Witness ==
    /\ ret.op = "import_array_from_stream_capsule"
    /\ ~ret.err
    /\ ReadOnce(ret.capsule)
    /\ snap[ret.capsule].size = 2
    /\ ret.result = <<snap[ret.capsule].values[1]>>
    /\ ret.discarded = <<snap[ret.capsule].values[2]>>
    /\ held[snap[ret.capsule].values[2]] = "destroyed"

\* ------------------------------------------------------------------ C32
\* Heap structs made by export_schema_to_capsule: copies of a schema.
SchemaCopies == {p \in Ptrs : heap[p].st # "unalloc" /\ heap[p].obj.private_data \in CopyBufs}
CopyCapsules == {c \in CapIds : capsules[c].st # "none" /\ capsules[c].pointer \in SchemaCopies}

C32_ExportStep ==
    ret'.op = "export_schema_to_capsule" =>
        LET arr == ret'.arr
            p == ret'.schema
            b == ret'.schema_release
            c == ret'.schema_capsule
        IN /\ arrays' = arrays /\ buffers' = buffers
           /\ Owns(arrays'[arr])
           /\ \A o \in OwnBufs : released'[o] = released[o]
           /\ b \in CopyBufs /\ released[b] = 0
           /\ b # arrays[arr].schema.release /\ b # arrays[arr].array.release
           /\ heap[p].st = "unalloc"
           /\ \A q \in Ptrs \ {p} : heap'[q] = heap[q]
           /\ IF ret'.err
              THEN /\ c = NULL
                   /\ capsules' = capsules
                   /\ heap'[p].st = "freed" /\ deleted'[p] = 1
                   /\ released'[b] = 1 /\ capReleased'[b] = 0
              ELSE /\ capsules'[c] = [st |-> "live", name |-> "arrow_schema", pointer |-> p,
                                      destructor |-> "release_arrow_schema_pycapsule"]
                   /\ capsules[c].st = "none"
                   /\ \A d \in CapIds \ {c} : capsules'[d] = capsules[d]
                   /\ heap'[p].st = "live" /\ heap'[p].obj.release = b
                   /\ heap'[p].obj.kind = "schema"
                   /\ released'[b] = 0 /\ deleted'[p] = 0

C32_DestroyStep ==
    \A c \in CopyCapsules :
        (capsules[c].st = "live" /\ capsules'[c].st = "destroyed") =>
            LET p == capsules[c].pointer
                b == heap[p].obj.private_data
            IN /\ arrays' = arrays /\ buffers' = buffers
               /\ \A o \in Bufs \ {b} : released'[o] = released[o]
               /\ IF heap[p].obj.release # NULL
                  THEN released[b] = 0 /\ released'[b] = 1
                  ELSE released'[b] = released[b]
               /\ heap'[p].st = "freed" /\ deleted'[p] = 1

\* C32: export_schema_to_capsule leaves the source array owning its data,
\* wraps an independent copy of the schema, with a release of its own, in a
\* capsule named "arrow_schema"; destroying that capsule releases the copy,
\* unless an import has taken it out of the capsule, and nothing else; when
\* the capsule cannot be created the copy is released and freed exactly once
\* and NULL is returned.
C32_SchemaExportedAsCopy == [][C32_ExportStep /\ C32_DestroyStep]_vars

\* A copy's capsule was destroyed and another export failed, both with the
\* copy released once, while the source array still owns unreleased data.
C32_Witness ==
    /\ \E c \in CopyCapsules :
          /\ capsules[c].st = "destroyed"
          /\ capReleased[heap[capsules[c].pointer].obj.private_data] = 1
    /\ \E p \in SchemaCopies :
          /\ \A c \in CapIds : capsules[c].st = "none" \/ capsules[c].pointer # p
          /\ heap[p].st = "freed" /\ deleted[p] = 1
          /\ released[heap[p].obj.private_data] = 1
    /\ \E v \in ArrayIds :
          /\ Owns(arrays[v])
          /\ released[arrays[v].schema.release] = 0
          /\ released[arrays[v].array.release] = 0

\* ------------------------------------------------------------------ C33
C33_ExportStep ==
    ret'.op = "SparrowArray_export_to_capsules" =>
        LET self == ret'.arr
            sb == ret'.schema_release
            ab == ret'.array_release
        IN /\ arrays' = arrays
           /\ Owns(arrays'[self])
           /\ Size(arrays'[self]) = Size(arrays[self])
           /\ \A o \in Bufs \ {sb, ab} : released'[o] = released[o] /\ buffers'[o] = buffers[o]
           /\ sb \in FreeCopyBufs(heap) /\ ab \in FreeCopyBufs(heap) /\ sb # ab
           /\ {sb, ab} \cap {arrays[self].schema.release, arrays[self].array.release} = {}
           /\ buffers'[ab] = buffers[arrays[self].array.private_data]
           /\ IF ret'.err
              THEN /\ ret'.first = NULL /\ ret'.second = NULL
                   /\ released'[sb] = 1 /\ released'[ab] = 1
              ELSE /\ capsules[ret'.first].st = "none" /\ capsules[ret'.second].st = "none"
                   /\ capsules'[ret'.first].st = "live" /\ capsules'[ret'.second].st = "live"
                   /\ heap'[capsules'[ret'.first].pointer].obj.release = sb
                   /\ heap'[capsules'[ret'.second].pointer].obj.release = ab
                   /\ heap'[capsules'[ret'.second].pointer].obj.length = Size(arrays[self])
                   /\ released'[sb] = 0 /\ released'[ab] = 0

C33_DestroyStep ==
    /\ \A c \in CapIds :
          (capsules[c].st = "live" /\ capsules'[c].st = "destroyed") =>
              /\ arrays' = arrays
              /\ \A b \in Bufs \ {heap[capsules[c].pointer].obj.private_data} :
                    released'[b] = released[b]
    /\ \A v \in ArrayIds :
          (arrays[v].st = "live" /\ arrays'[v].st = "destroyed") =>
              \A b \in Bufs \ {arrays[v].schema.release, arrays[v].array.release} :
                  released'[b] = released[b]

C33_WrappedIntact ==
    \A v \in InitialArrays :
        arrays[v].st = "live" =>
            /\ Owns(arrays[v])
            /\ arrays[v].schema.release = SchBuf(v) /\ arrays[v].array.release = ArrBuf(v)
            /\ released[SchBuf(v)] = 0 /\ released[ArrBuf(v)] = 0
            /\ Size(arrays[v]) = Len(buffers[ArrBuf(v)])

\* C33: SparrowArray::export_to_capsules exports a copy: the wrapped array is
\* unchanged by the call and keeps its data however often the method is
\* called, and every call returns a pair of capsules over a buffer set of its
\* own, which is released independently of the wrapped array and of the other
\* pairs.
C33_ExportsCopy == []C33_WrappedIntact /\ [][C33_ExportStep /\ C33_DestroyStep]_vars

\* Two pairs were returned by two calls on the same array; one pair has been
\* destroyed and released its buffer sets, the other pair and the wrapped
\* array still hold theirs.
C33_Witness ==
    /\ \A b \in CopyBufs : moves[b].exported = 1
    /\ \E b1 \in CopyBufs, b2 \in CopyBufs :
          /\ capReleased[b1] = 1 /\ capReleased[b2] = 1 /\ b1 # b2
          /\ \A b \in CopyBufs \ {b1, b2} : released[b] = 0 /\ Cardinality(CellHolders(b)) = 1
    /\ \E v \in InitialArrays : Owns(arrays[v]) /\ released[ArrBuf(v)] = 0

\* ------------------------------------------------------------------ C35
\* C35: in the earlier sparrow::pycapsule variant of export_array_to_capsules,
\* when the array capsule cannot be created after the schema capsule was
\* created, the schema heap struct is freed exactly once, the array heap
\* struct is freed exactly once, and the release of each descriptor is
\* invoked exactly once.
C35_EarlierRollback ==
    (ret.op = "earlier_export" /\ ret.schema_capsule # NULL /\ ret.array_capsule = NULL) =>
        /\ ~ret.crash
        /\ deleted[ret.schema] = 1
        /\ deleted[ret.array] = 1
        /\ released[ret.schema_release] = 1
        /\ released[ret.array_release] = 1

\* On that path the array descriptor's release is not invoked at all and the
\* schema struct is deleted before the capsule's destructor runs on it.
C35_ArrayNeverReleased ==
    (ret.op = "earlier_export" /\ ret.schema_capsule # NULL /\ ret.array_capsule = NULL) =>
        /\ released[ret.array_release] = 0
        /\ deleted[ret.array] = 1
        /\ (~ret.crash => deleted[ret.schema] = 2)

\* ------------------------------------------------------------------ C37
ObjectCalls == {"create_sparrow_array_object", "SparrowArray_dealloc"}

\* C37: SparrowArray_dealloc only deletes an arr pointer that is null or that
\* points to the array allocated for that object: on no failure path of
\* create_sparrow_array_object is an uninitialized arr pointer deleted, and
\* the caller's array is not consumed when no object is returned.
C37_DeallocDeletesOwnArray ==
    ret.op \in ObjectCalls =>
        /\ ret.dealloc.ran =>
              /\ ret.dealloc.field # Uninitialized
              /\ ret.dealloc.deleted = ret.dealloc.field
              /\ ~ret.dealloc.crash
        /\ (ret.op = "create_sparrow_array_object" /\ ret.object = NULL) =>
              Owns(arrays[ret.arr])

\* The paths on which the property does hold: the type or the object cannot
\* be made, the object is made, and an object that was made is deallocated.
C37_OtherPaths ==
    (ret.op \in ObjectCalls /\ ~(ret.dealloc.ran /\ ret.dealloc.field = Uninitialized)) =>
        /\ ret.dealloc.ran =>
              /\ ret.dealloc.deleted = ret.dealloc.field
              /\ ret.dealloc.field \in ArrayIds \cup {NULL}
              /\ ~ret.dealloc.crash
        /\ (ret.op = "create_sparrow_array_object" /\ ret.object = NULL) =>
              Owns(arrays[ret.arr])
        /\ (ret.op = "create_sparrow_array_object" /\ ret.object # NULL) =>
              objects[ret.object] = [st |-> "live", arr |-> ret.arr]

\* When `new` throws, dealloc runs on the field PyObject_New left unwritten.
C37_UninitializedDeleted ==
    (ret.op = "create_sparrow_array_object" /\ ret.self # NULL /\ ret.object = NULL) =>
        ret.dealloc.ran /\ ret.dealloc.field = Uninitialized

====
